---- MODULE Spec2Model ----
(***************************************************************************)
(* Verification model of bevy_archive: the HarvardCommandBuffer            *)
(* (src/bevy_cmdbuffer/buffer.rs), the archetype snapshot save/load        *)
(* pipeline (src/archetype_archive.rs, src/bevy_registry.rs) and the       *)
(* entity-id remapping loaders (src/entity_archive.rs,                     *)
(* src/binary_archive/world_snapshot.rs), the in-memory snapshot editing   *)
(* calls, the columnar CSV conversion (src/csv_archive.rs) and the         *)
(* manifest loader and manifest files (src/aurora_archive.rs).             *)
(***************************************************************************)
EXTENDS Integers, Sequences, FiniteSets, TLC

VARIABLES
    \* ---- HarvardCommandBuffer and the world it is applied to
    ops,             \* Vec<OpHead>
    pending_entity,  \* Option<Entity>
    pending_args,    \* Vec<ArgMeta>
    alive,           \* entities that exist in the world
    wcomp,           \* world storage: entity -> component id -> payload (0 = absent)
    drops,           \* per payload: how many times its drop_fn has run
    moved,           \* payloads whose ownership went to the world
    bufState,        \* "live" | "dropped"
    applied,         \* the op list the last apply executed
    calls,           \* entity of each insert_by_ids call of the last apply
    skipped,         \* payloads whose target entity was missing in the last apply
    recLog,          \* recording calls since the last apply/reset
    appliedLog,      \* the recording calls the last apply executed
    cycles,          \* number of apply/reset calls so far
    structurals      \* number of remove/despawn recordings so far

bufVars == <<ops, pending_entity, pending_args, alive, wcomp, drops, moved,
             bufState, applied, calls, skipped, recLog, appliedLog, cycles,
             structurals>>

VARIABLES
    \* ---- archetype snapshot save / load
    srcW,      \* the world that was saved: entity index -> (component -> value)
    reg,       \* SnapshotRegistry used by save: component -> mode or Unregistered
    loadReg,   \* SnapshotRegistry handed to the loader
    snap,      \* the WorldArchSnapshot handed to the loader
    loader,    \* which load function runs
    lstate,    \* "init" | "loading" | "done" | "panicked"
    work,      \* remaining iterations of the loader's loops, in loop order
    dst0,      \* the destination world before the load
    dst,       \* the world being loaded into
    dstArch    \* archetypes of dst: every component set an entity has occupied

loadVars == <<srcW, reg, loadReg, snap, loader, lstate, work, dst0, dst,
              dstArch>>

VARIABLES
    \* ---- loading with entity-id remapping
    rsnap,     \* archived rows of one archetype: [id, target]
    rmode,     \* SnapshotMode of the component type that holds the reference
    mapper,    \* EntityRemapper: index -> entity of the world, or PLACEHOLDER
    rpath,     \* "entity" (load_world_snapshot_with_remap) | "arrow" |
               \* "to_world" (load_arrow_archetype_to_world, no remapping)
    rstate,    \* "init" | "loading" | "imported" | "done" | "panicked"
    rwork,     \* rows still to be processed, in loop order
    column,    \* arrow path: component instances left in the column (payloads)
    ptarget,   \* per payload: the entity its reference field points to
    built      \* per payload the load constructed: the reference it was built with

remapVars ==
    <<rsnap, rmode, mapper, rpath, rstate, rwork, column, ptarget, built>>

VARIABLES
    \* ---- editing a snapshot in memory
    earch,     \* the ArchetypeSnapshot being edited
    ecalls,    \* add_type / remove_type / insert_component calls so far
    eres,      \* result of the last insert_component call
    psnap,     \* the WorldArchSnapshot given to purge_null
    pstate     \* "init" | "purged"

editVars == <<earch, ecalls, eres, psnap, pstate>>

VARIABLES
    \* ---- archetype snapshot <-> columnar CSV
    csnap,     \* the ArchetypeSnapshot that is converted
    ccsv,      \* the ColumnarCsv made from it
    cback,     \* the ArchetypeSnapshot made from the ColumnarCsv
    cstate     \* "snapshot" | "csv" | "back" | "panicked"

csvVars == <<csnap, ccsv, cback, cstate>>

VARIABLES
    \* ---- loading a world from a manifest
    marchs,    \* manifest.world.archetypes: the source URL of each
    membed,    \* manifest.world.embed: blob name -> blob
    mfiles,    \* what the blob loader finds: path -> blob
    mbase,     \* base directory of the filesystem blob loader
    mstate,    \* "init" | "resolving" | "loading" | "ok" | "err" | "panicked"
    mparsed,   \* loaded_archetypes
    mlog,      \* where each source was looked up so far
    mworld     \* the destination world

manVars == <<marchs, membed, mfiles, mbase, mstate, mparsed, mlog, mworld>>

VARIABLES
    \* ---- manifest files
    fpath,     \* the path given to save_to and load_from
    fman,      \* the manifest that is saved
    fdisk,     \* content of the file at fpath
    fres,      \* result of load_from
    fstate     \* "init" | "saved" | "loaded"

fileVars == <<fpath, fman, fdisk, fres, fstate>>

VARIABLES
    \* ---- the Archive facade
    akind,     \* which archive type implements the facade
    asrc,      \* the world the archive is created from
    aarchive,  \* the archive (its fields that hold entity ids)
    aents,     \* result of get_entities
    astate     \* "init" | "created" | "asked"

facVars == <<akind, asrc, aarchive, aents, astate>>

VARIABLES
    \* ---- ZIP container of an Arrow snapshot
    zids,      \* entities of the snapshot given to to_zip
    zzip,      \* the ZIP archive: file name -> content
    zback,     \* Result of from_zip: the entities read back, or an error
    zstate     \* "init" | "zipped" | "unzipped" | "panicked"

zipVars == <<zids, zzip, zback, zstate>>

extVars == <<facVars, zipVars>>

auxVars == <<editVars, csvVars, manVars, fileVars, extVars>>

vars == <<bufVars, loadVars, remapVars, auxVars>>

(***************************************************************************)
(* Bounds                                                                  *)
(***************************************************************************)
MaxRecords == 3   \* payloads and structural ops recorded over one run
MaxCycles == 1    \* apply/reset calls over one run

Ent == {0, 1}
Comp == {1, 2}
None == -1

\* no snapshot is being loaded while the command buffer is exercised
NoLoad ==
    /\ srcW = <<>>
    /\ reg = <<>>
    /\ loadReg = <<>>
    /\ snap = <<>>
    /\ loader = "none"
    /\ lstate = "none"
    /\ work = <<>>
    /\ dst0 = <<>>
    /\ dst = <<>>
    /\ dstArch = {}

\* no remapping load is in progress
NoRemap ==
    /\ rsnap = <<>>
    /\ rmode = "none"
    /\ mapper = <<>>
    /\ rpath = "none"
    /\ rstate = "none"
    /\ rwork = <<>>
    /\ column = <<>>
    /\ ptarget = <<>>
    /\ built = <<>>

\* no snapshot is being edited
NoEdit ==
    /\ earch = <<>>
    /\ ecalls = 0
    /\ eres = "none"
    /\ psnap = <<>>
    /\ pstate = "none"

\* no CSV conversion is running
NoCsv ==
    /\ csnap = <<>>
    /\ ccsv = <<>>
    /\ cback = <<>>
    /\ cstate = "none"

\* no manifest is being loaded
NoManifest ==
    /\ marchs = <<>>
    /\ membed = <<>>
    /\ mfiles = <<>>
    /\ mbase = <<>>
    /\ mstate = "none"
    /\ mparsed = <<>>
    /\ mlog = <<>>
    /\ mworld = <<>>

\* no manifest file is written or read
NoFile ==
    /\ fpath = <<>>
    /\ fman = <<>>
    /\ fdisk = <<>>
    /\ fres = <<>>
    /\ fstate = "none"

\* the Archive facade is not in use
NoFacade ==
    /\ akind = "none"
    /\ asrc = <<>>
    /\ aarchive = <<>>
    /\ aents = <<>>
    /\ astate = "none"

\* no ZIP container is written or read
NoZip ==
    /\ zids = <<>>
    /\ zzip = <<>>
    /\ zback = <<>>
    /\ zstate = "none"

NoExt == NoFacade /\ NoZip

NoAux == NoEdit /\ NoCsv /\ NoManifest /\ NoFile /\ NoExt

NoLoadRunning == UNCHANGED <<loadVars, remapVars, auxVars>>

(***************************************************************************)
(* Sequence helpers                                                        *)
(***************************************************************************)
Range(s) == {s[i] : i \in 1..Len(s)}

RECURSIVE Count(_, _)
Count(s, x) ==
    IF s = <<>> THEN 0
    ELSE (IF Head(s) = x THEN 1 ELSE 0) + Count(Tail(s), x)

\* Vec::swap_remove: the last element takes the place of element i
swap_remove(s, i) ==
    IF i = Len(s) THEN SubSeq(s, 1, Len(s) - 1)
    ELSE [k \in 1..(Len(s) - 1) |-> IF k = i THEN s[Len(s)] ELSE s[k]]

\* one call of a drop_fn per listed payload
RunDrops(d, ps) == [p \in DOMAIN d |-> d[p] + Count(ps, p)]

(***************************************************************************)
(* flush: the write-combining loop over pending_args                       *)
(***************************************************************************)
\* mutant: the overwritten payloads are dropped but stay in the list
Dedup_keep_dropped(args, i, dropped) ==
    [args |-> args,
     dropped |-> SelectSeq([k \in 1..Len(args) |->
                               IF \E j \in (k + 1)..Len(args) :
                                      args[j].comp_id = args[k].comp_id
                               THEN args[k].payload ELSE 0],
                           LAMBDA p : p # 0)]

RECURSIVE Dedup(_, _, _)
Dedup(args, i, dropped) ==
    IF i > Len(args) THEN [args |-> args, dropped |-> dropped]
    ELSE IF \E j \in (i + 1)..Len(args) : args[j].comp_id = args[i].comp_id
         THEN Dedup(swap_remove(args, i), i, Append(dropped, args[i].payload))
         ELSE Dedup(args, i + 1, dropped)

ModifyEntity(e, args, src) ==
    [kind |-> "ModifyEntity", entity |-> e, args |-> args, src |-> src]

BatchInsert(es, ps, c) ==
    [kind |-> "BatchInsert", entities |-> es, payloads |-> ps, comp_id |-> c]

RemoveComponents(e, ids) ==
    [kind |-> "RemoveComponents", entity |-> e, ids |-> ids]

Despawn(e) == [kind |-> "Despawn", entity |-> e]

\* mutant: the pending list becomes an op as it is, without write combining
flush_no_dedup(b) ==
    IF b.pe = None \/ b.pa = <<>>
    THEN [b EXCEPT !.pe = None]
    ELSE [ops   |-> Append(b.ops, ModifyEntity(b.pe, b.pa, b.pa)),
          pe    |-> None,
          pa    |-> <<>>,
          drops |-> b.drops]

\* b = [ops, pe, pa, drops]: the buffer fields flush reads and writes
flush(b) ==
    IF b.pe = None \/ b.pa = <<>>
    THEN [b EXCEPT !.pe = None]
    ELSE LET r == Dedup(b.pa, 1, <<>>)
         IN  [ops   |-> IF r.args # <<>>
                        THEN Append(b.ops, ModifyEntity(b.pe, r.args, b.pa))
                        ELSE b.ops,
              pe    |-> None,
              pa    |-> <<>>,
              drops |-> RunDrops(b.drops, r.dropped)]

Buf == [ops |-> ops, pe |-> pending_entity, pa |-> pending_args, drops |-> drops]

SetBuf(b) ==
    /\ ops' = b.ops
    /\ pending_entity' = b.pe
    /\ pending_args' = b.pa
    /\ drops' = b.drops

NextPayload == Len(drops) + 1

Alloc(d, n) == d \o [k \in 1..n |-> 0]

\* mutant: every insert flushes first, whatever the pending entity
insert_raw_always_flush(b, e, c, p) ==
    LET f == [flush(b) EXCEPT !.pe = e]
    IN  [f EXCEPT !.pa = Append(f.pa, [comp_id |-> c, payload |-> p])]

insert_raw(b, e, c, p) ==
    LET f == IF b.pe # e THEN [flush(b) EXCEPT !.pe = e] ELSE b
    IN  [f EXCEPT !.pa = Append(f.pa, [comp_id |-> c, payload |-> p])]

(***************************************************************************)
(* apply: one world step per op, in recorded order                         *)
(***************************************************************************)
ArgPayloads(args) == [k \in 1..Len(args) |-> args[k].payload]

\* EntityWorldMut::insert_by_ids: every (id, ptr) pair is written in order
RECURSIVE insert_by_ids(_, _, _)
insert_by_ids(wc, e, args) ==
    IF args = <<>> THEN wc
    ELSE insert_by_ids([wc EXCEPT ![e][Head(args).comp_id] = Head(args).payload],
                       e, Tail(args))

\* w = [alive, wcomp, moved, calls, skipped]
ApplyModifyEntity(w, op) ==
    IF op.entity \in w.alive
    THEN [w EXCEPT !.wcomp = insert_by_ids(w.wcomp, op.entity, op.args),
                   !.moved = @ \cup Range(ArgPayloads(op.args)),
                   !.calls = Append(@, op.entity)]
    ELSE [w EXCEPT !.skipped = @ \cup Range(ArgPayloads(op.args))]

RECURSIVE ApplyBatchInsert(_, _, _)
ApplyBatchInsert(w, op, k) ==
    IF k > Len(op.entities) THEN w
    ELSE LET e == op.entities[k]
             p == op.payloads[k]
         IN  ApplyBatchInsert(
                 IF e \in w.alive
                 THEN [w EXCEPT !.wcomp[e][op.comp_id] = p,
                                !.moved = @ \cup {p}]
                 ELSE [w EXCEPT !.skipped = @ \cup {p}],
                 op, k + 1)

ApplyRemoveComponents(w, op) ==
    IF op.entity \in w.alive
    THEN [w EXCEPT !.wcomp[op.entity] =
                       [c \in Comp |-> IF c \in Range(op.ids) THEN 0 ELSE @[c]]]
    ELSE w

ApplyDespawn(w, op) ==
    IF op.entity \in w.alive
    THEN [w EXCEPT !.alive = @ \ {op.entity},
                   !.wcomp[op.entity] = [c \in Comp |-> 0]]
    ELSE w

ApplyOp(w, op) ==
    CASE op.kind = "ModifyEntity"     -> ApplyModifyEntity(w, op)
      [] op.kind = "BatchInsert"      -> ApplyBatchInsert(w, op, 1)
      [] op.kind = "RemoveComponents" -> ApplyRemoveComponents(w, op)
      [] op.kind = "Despawn"          -> ApplyDespawn(w, op)

RECURSIVE ApplyOps(_, _)
ApplyOps(w, os) ==
    IF os = <<>> THEN w ELSE ApplyOps(ApplyOp(w, Head(os)), Tail(os))

(***************************************************************************)
(* Payloads the buffer still owns, as Drop and reset walk them             *)
(***************************************************************************)
OpPayloads(op) ==
    CASE op.kind = "ModifyEntity" -> ArgPayloads(op.args)
      [] op.kind = "BatchInsert"  -> op.payloads
      [] OTHER                    -> <<>>

RECURSIVE OpsPayloads(_)
OpsPayloads(os) ==
    IF os = <<>> THEN <<>> ELSE OpPayloads(Head(os)) \o OpsPayloads(Tail(os))

OwnedPayloads(pa, os) == ArgPayloads(pa) \o OpsPayloads(os)

(***************************************************************************)
(* Initial state: an empty buffer and a world in which any subset of the   *)
(* entities the caller holds ids for exists (none has a component yet).    *)
(***************************************************************************)
InitBuf ==
    /\ ops = <<>>
    /\ pending_entity = None
    /\ pending_args = <<>>
    /\ alive \in {{0, 1}, {0}}
    /\ wcomp = [e \in Ent |-> [c \in Comp |-> 0]]
    /\ drops = <<>>
    /\ moved = {}
    /\ bufState = "live"
    /\ applied = <<>>
    /\ calls = <<>>
    /\ skipped = {}
    /\ recLog = <<>>
    /\ appliedLog = <<>>
    /\ cycles = 0
    /\ structurals = 0
    /\ NoLoad
    /\ NoRemap
    /\ NoAux

Recorded == Len(drops) + structurals

UnchangedWorld ==
    UNCHANGED <<alive, wcomp, moved, applied, calls, skipped, appliedLog>>

(***************************************************************************)
(* Recording operations                                                    *)
(***************************************************************************)
\* insert<T> / insert_generic<T> / insert_box -> insert_raw
insert(e, c) ==
    /\ bufState = "live"
    /\ NoLoadRunning
    /\ Recorded + 1 <= MaxRecords
    /\ LET b == [Buf EXCEPT !.drops = Alloc(drops, 1)]
       IN  SetBuf(insert_raw(b, e, c, NextPayload))
    /\ recLog' = Append(recLog, [op |-> "insert", entity |-> e, comp_id |-> c,
                                 payload |-> NextPayload])
    /\ UNCHANGED <<bufState, cycles, structurals>>
    /\ UnchangedWorld

\* the entity slices insert_batch is called with
BatchTargets == {<<1>>, <<0, 1>>}

insert_batch(es, c) ==
    /\ bufState = "live"
    /\ NoLoadRunning
    /\ Recorded + Len(es) <= MaxRecords
    /\ LET f  == flush(Buf)
           ps == [k \in 1..Len(es) |-> NextPayload + k - 1]
       IN  SetBuf([f EXCEPT !.ops = Append(@, BatchInsert(es, ps, c)),
                            !.drops = Alloc(@, Len(es))])
    /\ recLog' = Append(recLog, [op |-> "insert_batch", entities |-> es,
                                 comp_id |-> c,
                                 payloads |-> [k \in 1..Len(es) |->
                                                  NextPayload + k - 1]])
    /\ UNCHANGED <<bufState, cycles, structurals>>
    /\ UnchangedWorld

\* remove<T> -> remove_raw(entity, &[comp_id])
remove(e, c) ==
    /\ bufState = "live"
    /\ NoLoadRunning
    /\ Recorded + 1 <= MaxRecords
    /\ LET f == flush(Buf)
       IN  SetBuf([f EXCEPT !.ops = Append(@, RemoveComponents(e, <<c>>))])
    /\ recLog' = Append(recLog, [op |-> "remove", entity |-> e, comp_id |-> c])
    /\ structurals' = structurals + 1
    /\ UNCHANGED <<bufState, cycles>>
    /\ UnchangedWorld

despawn(e) ==
    /\ bufState = "live"
    /\ NoLoadRunning
    /\ Recorded + 1 <= MaxRecords
    /\ LET f == flush(Buf)
       IN  SetBuf([f EXCEPT !.ops = Append(@, Despawn(e))])
    /\ recLog' = Append(recLog, [op |-> "despawn", entity |-> e])
    /\ structurals' = structurals + 1
    /\ UNCHANGED <<bufState, cycles>>
    /\ UnchangedWorld

(***************************************************************************)
(* apply, reset and Drop                                                   *)
(***************************************************************************)
apply ==
    /\ bufState = "live"
    /\ NoLoadRunning
    /\ cycles < MaxCycles
    /\ LET f == flush(Buf)
           w == ApplyOps([alive |-> alive, wcomp |-> wcomp, moved |-> moved,
                          calls |-> <<>>, skipped |-> {}], f.ops)
       IN  /\ alive' = w.alive
           /\ wcomp' = w.wcomp
           /\ moved' = w.moved
           /\ calls' = w.calls
           /\ skipped' = w.skipped
           /\ applied' = f.ops
           /\ appliedLog' = recLog
           /\ SetBuf([f EXCEPT !.ops = <<>>, !.pa = <<>>, !.pe = None])
    /\ recLog' = <<>>
    /\ cycles' = cycles + 1
    /\ UNCHANGED <<bufState, structurals>>

reset ==
    /\ bufState = "live"
    /\ NoLoadRunning
    /\ cycles < MaxCycles
    /\ SetBuf([ops |-> <<>>, pe |-> None, pa |-> <<>>,
               drops |-> RunDrops(drops, OwnedPayloads(pending_args, ops))])
    /\ recLog' = <<>>
    /\ cycles' = cycles + 1
    /\ UNCHANGED <<bufState, structurals>>
    /\ UnchangedWorld

\* mutant: Drop walks the pending list only and forgets the op list
DropPayloadsPendingOnly(pa, os) == ArgPayloads(pa)

\* impl Drop for HarvardCommandBuffer
DropPayloads(pa, os) == OwnedPayloads(pa, os)

drop ==
    /\ bufState = "live"
    /\ NoLoadRunning
    /\ drops' = RunDrops(drops, DropPayloads(pending_args, ops))
    /\ bufState' = "dropped"
    /\ UNCHANGED <<ops, pending_entity, pending_args, recLog, cycles, structurals>>
    /\ UnchangedWorld

NextBuf ==
    \/ \E e \in Ent, c \in Comp : insert(e, c)
    \/ \E es \in BatchTargets, c \in Comp : insert_batch(es, c)
    \/ \E e \in Ent, c \in Comp : remove(e, c)
    \/ \E e \in Ent : despawn(e)
    \/ apply
    \/ reset
    \/ drop

SpecBuf == InitBuf /\ [][NextBuf]_vars

(***************************************************************************)
(* Properties of the command buffer                                        *)
(***************************************************************************)
IsModify(op) == op.kind = "ModifyEntity"

HasComp(args, c) == \E k \in 1..Len(args) : args[k].comp_id = c

\* the payload of the last insert of component c in the recorded order
LastFor(src, c) ==
    src[CHOOSE k \in 1..Len(src) :
            /\ src[k].comp_id = c
            /\ \A j \in (k + 1)..Len(src) : src[j].comp_id # c].payload

Survivor(args, c) ==
    args[CHOOSE k \in 1..Len(args) : args[k].comp_id = c].payload

LastWins(op) ==
    \A c \in Comp : HasComp(op.src, c) =>
        /\ HasComp(op.args, c)
        /\ Survivor(op.args, c) = LastFor(op.src, c)

\* C2: for k >= 2 inserts of one component type buffered for one entity
\* (interleaved in any way with inserts of other types), the op produced by
\* flush keeps the payload inserted last, and after apply the entity holds
\* that payload.
C2_LastInsertSurvives ==
    /\ \A k \in 1..Len(ops) : IsModify(ops[k]) => LastWins(ops[k])
    /\ (applied # <<>> /\ IsModify(applied[Len(applied)])
        /\ applied[Len(applied)].entity \in alive) =>
           LET op == applied[Len(applied)]
           IN  \A c \in Comp : HasComp(op.src, c) =>
                   wcomp[op.entity][c] = LastFor(op.src, c)

\* C3: every payload of an op that apply skipped because its target entity
\* does not exist has had its drop function run exactly once.
C3_SkippedPayloadsDropped ==
    \A p \in skipped : drops[p] = 1

RECURSIVE LogPayloads(_)
LogPayloads(log) ==
    IF log = <<>> THEN {}
    ELSE LET h == Head(log)
         IN  (CASE h.op = "insert"       -> {h.payload}
                [] h.op = "insert_batch" -> Range(h.payloads)
                [] OTHER                 -> {}) \cup LogPayloads(Tail(log))

\* C4: once a buffer holding unapplied inserts is dropped, the drop function
\* of every payload recorded since the last apply/reset has run exactly
\* once, whether the payload was still pending or already sat in a
\* ModifyEntity or BatchInsert op.
C4_DropRunsEveryStagedDrop ==
    bufState = "dropped" => \A p \in LogPayloads(recLog) : drops[p] = 1

C4_Witness ==
    /\ bufState = "dropped"
    /\ pending_args # <<>>
    /\ \E k \in 1..Len(ops) : ops[k].kind = "ModifyEntity"
    /\ \E k \in 1..Len(ops) : ops[k].kind = "BatchInsert"

OnlyInserts(log) == \A k \in 1..Len(log) : log[k].op = "insert"

Targets(log) == {log[k].entity : k \in 1..Len(log)}

\* maximal runs of consecutive inserts that target entity e
Runs(log, e) ==
    Cardinality({k \in 1..Len(log) :
                    /\ log[k].entity = e
                    /\ (k = 1 \/ log[k - 1].entity # e)})

\* C5 as claimed: whatever the order in which single inserts were recorded,
\* apply calls insert_by_ids exactly once for each existing target entity.
C5_OneCallPerEntity ==
    (cycles > 0 /\ OnlyInserts(appliedLog)) =>
        \A e \in Targets(appliedLog) \cap alive : Count(calls, e) = 1

\* C5 amended: apply calls insert_by_ids exactly once for each maximal run
\* of consecutive inserts that target the same existing entity.
C5_OneCallPerRun ==
    (cycles > 0 /\ OnlyInserts(appliedLog)) =>
        \A e \in alive : Count(calls, e) = Runs(appliedLog, e)

C5_Witness ==
    /\ cycles > 0
    /\ OnlyInserts(appliedLog)
    /\ \E e \in alive :
          /\ Cardinality({k \in 1..Len(appliedLog) : appliedLog[k].entity = e}) >= 2
          /\ Count(calls, e) = 1

(***************************************************************************)
(* Archetype snapshots: values, codecs and the registry                    *)
(***************************************************************************)
MaxEntities == 2   \* the saved world uses entity indices 0..MaxEntities-1

LEnt == 0..(MaxEntities - 1)
LComp == {1, 2}                  \* component types
Val == {0, 1}                    \* component values; 0 is Default::default()
Unregistered == "Unregistered"   \* get_factory returns None
Modes == {"Full", "EmplaceIfNotExists"}

\* Option<T>
NoneOpt == [some |-> FALSE, v |-> 0]
Some(x) == [some |-> TRUE, v |-> x]

\* Result<T, String>
Ok(x) == [ok |-> TRUE, v |-> x]
Err == [ok |-> FALSE, v |-> 0]

\* serde_json::Value cells
Null == [k |-> "null", v |-> 0]
Garbage == [k |-> "string", v |-> 0]
to_value(x) == [k |-> "number", v |-> x]
from_value(cell) == IF cell.k = "number" THEN Ok(cell.v) ELSE Err

\* a world: entity index -> (component -> value); the domains are the
\* entities that exist and the components each one has
NoComponents == [c \in {} |-> 0]
CompMaps == UNION {[cs -> Val] : cs \in SUBSET LComp}
Worlds == UNION {[es -> CompMaps] : es \in SUBSET LEnt}

get(world, e, c) ==
    IF e \in DOMAIN world /\ c \in DOMAIN world[e] THEN Some(world[e][c])
    ELSE NoneOpt

\* EntityWorldMut::insert of one component
world_insert(world, e, c, x) ==
    [world EXCEPT ![e] = [d \in (DOMAIN @) \cup {c} |->
                             IF d = c THEN x ELSE @[d]]]

\* world.archetypes(): the empty archetype plus every occupied component set
archetypes(world) == {{}} \cup {DOMAIN world[e] : e \in DOMAIN world}

archetype_count(archs) == Cardinality(archs)

Registered(r) == {c \in LComp : r[c] # Unregistered}

\* gen_export!(full): both modes export the component's value
export(mode, world, e, c) ==
    IF c \in DOMAIN world[e] THEN Some(to_value(world[e][c])) ELSE NoneOpt

\* mutant: every mode builds the component from Default
dyn_ctor_placeholder(mode, cell) == Ok(0)

\* gen_ctor!(full) decodes the cell; gen_ctor!(placeholder), used by the
\* emplace codec, ignores it and builds Default
dyn_ctor(mode, cell) ==
    IF mode = "Full" THEN from_value(cell) ELSE Ok(0)

\* gen_import!(full) / gen_import!(emplace)
import(mode, c, cell, world, e) ==
    IF mode = "Full"
    THEN LET r == from_value(cell)
         IN  IF r.ok THEN [ok |-> TRUE, world |-> world_insert(world, e, c, r.v)]
             ELSE [ok |-> FALSE, world |-> world]
    ELSE IF c \in DOMAIN world[e] THEN [ok |-> TRUE, world |-> world]
         ELSE [ok |-> TRUE, world |-> world_insert(world, e, c, 0)]

(***************************************************************************)
(* save_world_arch_snapshot                                                *)
(***************************************************************************)
Min(S) == CHOOSE x \in S : \A y \in S : x <= y

RECURSIVE sort_unstable(_)
sort_unstable(S) ==
    IF S = {} THEN <<>> ELSE <<Min(S)>> \o sort_unstable(S \ {Min(S)})

\* the order in which the world's archetypes are iterated
RECURSIVE ArchetypeOrder(_)
ArchetypeOrder(SS) ==
    IF SS = {} THEN <<>>
    ELSE LET s == CHOOSE x \in SS : TRUE
         IN  <<s>> \o ArchetypeOrder(SS \ {s})

RECURSIVE Flatten(_)
Flatten(ss) == IF ss = <<>> THEN <<>> ELSE Head(ss) \o Flatten(Tail(ss))

ArchetypeSnapshotDefault ==
    [entities |-> <<>>, component_types |-> <<>>, storage_types |-> <<>>,
     columns |-> <<>>]

SaveArchetype(world, r, cs) ==
    LET ents  == sort_unstable({e \in DOMAIN world : DOMAIN world[e] = cs})
        types == sort_unstable(cs \cap Registered(r))
    IN  IF cs \cap Registered(r) = {} THEN ArchetypeSnapshotDefault
        ELSE [entities |-> ents,
              component_types |-> types,
              storage_types |-> [i \in 1..Len(types) |-> "Table"],
              columns |-> [i \in 1..Len(types) |->
                             [k \in 1..Len(ents) |->
                                 export(r[types[i]], world, ents[k], types[i]).v]]]

save_world_arch_snapshot(world, r) ==
    LET occupied == ArchetypeOrder({DOMAIN world[e] : e \in DOMAIN world})
    IN  [entities |-> sort_unstable(DOMAIN world),
         archetypes |-> [i \in 1..Len(occupied) |->
                            SaveArchetype(world, r, occupied[i])]]

count_entities(s) ==
    (IF s.entities = <<>> THEN 0 ELSE s.entities[Len(s.entities)]) + 1

\* the cells of a snapshot as <<archetype, row, column>> positions
Cells(s) ==
    UNION {UNION {{<<a, r, c>> : r \in 1..Min({Len(s.archetypes[a].entities),
                                                 Len(s.archetypes[a].columns[c])})} :
                    c \in 1..Len(s.archetypes[a].component_types)} :
             a \in 1..Len(s.archetypes)}

\* the columns of a snapshot as <<archetype, column>> positions
Columns(s) ==
    UNION {{<<a, c>> : c \in 1..Len(s.archetypes[a].component_types)} :
             a \in 1..Len(s.archetypes)}

\* ArchetypeSnapshot::get_column_index: the first column of that type
get_column_index(arch, type_name) ==
    Min({i \in 1..Len(arch.component_types) : arch.component_types[i] = type_name})

CellEntity(s, p) == s.archetypes[p[1]].entities[p[2]]
CellType(s, p) == s.archetypes[p[1]].component_types[p[3]]
CellValue(s, p) == s.archetypes[p[1]].columns[p[3]][p[2]]

\* a snapshot whose cell p was damaged after it was written
Corrupt(s, p) ==
    [s EXCEPT !.archetypes[p[1]].columns[p[3]][p[2]] = Garbage]

\* a snapshot whose column q lost its last cell, or gained one
Shorten(s, q) ==
    [s EXCEPT !.archetypes[q[1]].columns[q[2]] = SubSeq(@, 1, Len(@) - 1)]

Lengthen(s, q) ==
    [s EXCEPT !.archetypes[q[1]].columns[q[2]] = Append(@, to_value(0))]

\* a snapshot in which the type of column q is listed once more, in a new
\* last column whose cells all hold x
Duplicate(s, q, x) ==
    [s EXCEPT !.archetypes[q[1]] =
        [entities |-> @.entities,
         component_types |-> Append(@.component_types, @.component_types[q[2]]),
         storage_types |-> Append(@.storage_types, "Table"),
         columns |-> Append(@.columns,
                            [k \in 1..Len(@.entities) |-> to_value(x)])]]

(***************************************************************************)
(* DeferredEntityBuilder                                                   *)
(***************************************************************************)
DeferredEntityBuilder_new == [ids |-> <<>>, ptrs |-> <<>>]

\* mutant: a type staged already keeps its first payload
insert_by_id_keep_first(b, id, x) ==
    IF \E i \in 1..Len(b.ids) : b.ids[i] = id
    THEN b
    ELSE [ids |-> Append(b.ids, id), ptrs |-> Append(b.ptrs, x)]

insert_by_id(b, id, x) ==
    IF \E i \in 1..Len(b.ids) : b.ids[i] = id
    THEN LET i == CHOOSE j \in 1..Len(b.ids) : b.ids[j] = id
         IN  [b EXCEPT !.ptrs[i] = x]
    ELSE [ids |-> Append(b.ids, id), ptrs |-> Append(b.ptrs, x)]

\* mutant: stages the payload without looking at the world
insert_if_new_by_id_unchecked(world, e, b, id, x) ==
    insert_by_id(b, id, x)

insert_if_new_by_id(world, e, b, id, x) ==
    IF id \in DOMAIN world[e] THEN b ELSE insert_by_id(b, id, x)

\* the entity's component map after the first n staged components are in
Staged(world, e, b, n) ==
    [d \in (DOMAIN world[e]) \cup {b.ids[i] : i \in 1..n} |->
        IF \E i \in 1..n : b.ids[i] = d
        THEN b.ptrs[CHOOSE i \in 1..n : b.ids[i] = d]
        ELSE world[e][d]]

\* mutant: one structural insert per staged component
commit_per_component(w, e, b) ==
    [world |-> [w.world EXCEPT ![e] = Staged(w.world, e, b, Len(b.ids))],
     archs |-> w.archs \cup
               {DOMAIN Staged(w.world, e, b, n) : n \in 1..Len(b.ids)}]

\* commit: one insert_by_ids call, one archetype move
commit(w, e, b) ==
    [world |-> [w.world EXCEPT ![e] = Staged(w.world, e, b, Len(b.ids))],
     archs |-> w.archs \cup {DOMAIN Staged(w.world, e, b, Len(b.ids))}]

(***************************************************************************)
(* The loaders                                                             *)
(***************************************************************************)
\* reserve_entities(n) followed by flush: n fresh entities without
\* components, at the indices after the ones the world already uses
reserve_entities(world, n) ==
    LET k == Cardinality(DOMAIN world)
    IN  [e \in (DOMAIN world) \cup (k..(k + n - 1)) |->
            IF e \in DOMAIN world THEN world[e] ELSE NoComponents]

EmptyWorld == [e \in {} |-> NoComponents]

\* destination worlds a load starts from: World::new(), or a world whose
\* entities exist already and one of them holds components, of a value
\* other than Default
DstWorlds ==
    {EmptyWorld} \cup
    {[e \in LEnt |-> IF e = x THEN [c \in cs |-> 1] ELSE NoComponents] :
        x \in LEnt, cs \in (SUBSET LComp) \ {{}}}

\* convert_to_entity_snapshot indexes every column by every row
ConvertPanics(s) ==
    \E q \in Columns(s) :
        Len(s.archetypes[q[1]].columns[q[2]]) < Len(s.archetypes[q[1]].entities)

\* load_world_arch_snapshot_defragment: for arch, for row
DefragmentWork(s) ==
    Flatten([a \in 1..Len(s.archetypes) |->
               [r \in 1..Len(s.archetypes[a].entities) |-> <<a, r, 0>>]])

\* load_world_arch_snapshot: for arch, for type, for row
ArchWork(s) ==
    Flatten([a \in 1..Len(s.archetypes) |->
               Flatten([c \in 1..Len(s.archetypes[a].component_types) |->
                          [r \in 1..Min({Len(s.archetypes[a].entities),
                                         Len(s.archetypes[a].columns[
                                             get_column_index(s.archetypes[a],
                                                 s.archetypes[a].component_types[c])])}) |->
                              <<a, r, c>>]])])

\* convert_to_entity_snapshot, then load_world_snapshot: for entity, for
\* component
EntityWork(s) ==
    Flatten([a \in 1..Len(s.archetypes) |->
               Flatten([r \in 1..Len(s.archetypes[a].entities) |->
                          [c \in 1..Len(s.archetypes[a].component_types) |->
                              <<a, r, c>>]])])

\* load_world_snapshot: max_id over the entity snapshots, starting from 0
max_id(s) ==
    LET ids == {CellEntity(s, <<a, r, 0>>) : <<a, r>> \in
                  {x \in (1..Len(s.archetypes)) \X (1..MaxEntities) :
                      x[2] <= Len(s.archetypes[x[1]].entities)}}
    IN  IF ids = {} THEN 0 ELSE CHOOSE m \in ids : \A y \in ids : y <= m

\* the columns of an archetype snapshot that have a factory
arch_info(arch, r) ==
    SelectSeq([i \in 1..Len(arch.component_types) |->
                  [col_idx |-> i, id |-> arch.component_types[i],
                   mode |-> r[arch.component_types[i]]]],
              LAMBDA x : x.mode # Unregistered)

\* the loop over arch_info for one row: ctor(..).unwrap(), then the insert
\* chosen by the mode
RECURSIVE BuildRow(_, _, _, _, _, _)
BuildRow(b, info, arch, row, world, e) ==
    IF info = <<>> THEN [ok |-> TRUE, b |-> b]
    ELSE LET x == Head(info)
             p == dyn_ctor(x.mode, arch.columns[x.col_idx][row])
         IN  IF row > Len(arch.columns[x.col_idx]) \/ ~p.ok
             THEN [ok |-> FALSE, b |-> b]
             ELSE BuildRow(IF x.mode = "Full"
                           THEN insert_by_id(b, x.id, p.v)
                           ELSE insert_if_new_by_id(world, e, b, x.id, p.v),
                           Tail(info), arch, row, world, e)

\* the command buffer plays no part in these loads
BufferUnused ==
    /\ ops = <<>>
    /\ pending_entity = None
    /\ pending_args = <<>>
    /\ alive = {}
    /\ wcomp = <<>>
    /\ drops = <<>>
    /\ moved = {}
    /\ bufState = "none"
    /\ applied = <<>>
    /\ calls = <<>>
    /\ skipped = {}
    /\ recLog = <<>>
    /\ appliedLog = <<>>
    /\ cycles = 0
    /\ structurals = 0

InitLoad ==
    /\ BufferUnused
    /\ srcW \in Worlds
    /\ reg \in [LComp -> Modes \cup {Unregistered}]
    /\ LET s == save_world_arch_snapshot(srcW, reg)
       IN  \/ /\ snap = s
              /\ loadReg \in {reg} \cup
                   {[reg EXCEPT ![c] = Unregistered] : c \in Registered(reg)}
              /\ dst0 = EmptyWorld
           \/ /\ snap \in {Corrupt(s, p) : p \in Cells(s)}
              /\ loadReg = reg
              /\ dst0 = EmptyWorld
    /\ loader \in {"defragment", "arch", "entity"}
    /\ lstate = "init"
    /\ work = <<>>
    /\ dst = dst0
    /\ dstArch = archetypes(dst0)
    /\ NoRemap
    /\ NoAux

\* loads of a snapshot that was edited after save: a column made shorter or
\* longer, a type listed twice
InitLoadEdited ==
    /\ BufferUnused
    /\ srcW \in Worlds
    /\ reg \in [LComp -> Modes]
    /\ loadReg = reg
    /\ LET s == save_world_arch_snapshot(srcW, reg)
       IN  snap \in {Shorten(s, q) : q \in Columns(s)} \cup
                    {Lengthen(s, q) : q \in Columns(s)} \cup
                    {Duplicate(s, q, x) : q \in Columns(s), x \in Val}
    /\ dst0 = EmptyWorld
    /\ loader \in {"defragment", "arch", "entity"}
    /\ lstate = "init"
    /\ work = <<>>
    /\ dst = dst0
    /\ dstArch = archetypes(dst0)
    /\ NoRemap
    /\ NoAux

\* loads of a saved snapshot into a world that already holds components
InitLoadInto ==
    /\ BufferUnused
    /\ srcW \in Worlds
    /\ reg \in [LComp -> Modes]
    /\ loadReg = reg
    /\ snap = save_world_arch_snapshot(srcW, reg)
    /\ dst0 \in DstWorlds \ {EmptyWorld}
    /\ loader \in {"defragment", "arch", "entity"}
    /\ lstate = "init"
    /\ work = <<>>
    /\ dst = dst0
    /\ dstArch = archetypes(dst0)
    /\ NoRemap
    /\ NoAux

NoBufferUse == UNCHANGED <<bufVars, remapVars, auxVars>>

LoadInputs == UNCHANGED <<srcW, reg, loadReg, snap, loader, dst0>>

\* mutant: the rows are not consulted for the reservation
max_entity_zero(s) == 0

\* load_world_manifest_with_loader: the largest row index over all the
\* archetypes of the manifest, starting from 0
max_entity(s) ==
    LET ids == UNION {{s.archetypes[a].entities[r] :
                          r \in DOMAIN s.archetypes[a].entities} :
                      a \in DOMAIN s.archetypes}
    IN  CHOOSE m \in ids \cup {0} : \A i \in ids : i <= m

\* the snapshot the manifest loader hands to load_world_arch_snapshot for one
\* archetype: no entity list, that archetype alone
temp_snap(s, a) == [entities |-> <<>>, archetypes |-> <<s.archetypes[a]>>]

\* the per-archetype loop of the manifest loader: entering the archetype
\* (row 0), then its cells as load_world_arch_snapshot visits them
RECURSIVE ManifestWorkFrom(_, _)
ManifestWorkFrom(s, a) ==
    IF a > Len(s.archetypes) THEN <<>>
    ELSE <<<<a, 0, 0>>>>
         \o SelectSeq(ArchWork(s), LAMBDA p : p[1] = a)
         \o ManifestWorkFrom(s, a + 1)

ManifestWork(s) == ManifestWorkFrom(s, 1)

\* reserve the entity slots, flush, and enter the loops
load_begin ==
    /\ lstate = "init"
    /\ IF loader = "entity" /\ ConvertPanics(snap)
       THEN /\ lstate' = "panicked"
            /\ UNCHANGED <<dst, work>>
       ELSE /\ dst' = reserve_entities(dst, IF loader = "entity"
                                            THEN max_id(snap) + 1
                                            ELSE IF loader = "manifest"
                                            THEN max_entity(snap) + 1
                                            ELSE count_entities(snap))
            /\ work' = IF loader = "defragment" THEN DefragmentWork(snap)
                       ELSE IF loader = "arch" THEN ArchWork(snap)
                       ELSE IF loader = "manifest" THEN ManifestWork(snap)
                       ELSE EntityWork(snap)
            /\ lstate' = "loading"
    /\ UNCHANGED dstArch
    /\ LoadInputs
    /\ NoBufferUse

\* one row of load_world_arch_snapshot_defragment
defragment_row ==
    /\ lstate = "loading"
    /\ loader = "defragment"
    /\ work # <<>>
    /\ LET p    == Head(work)
           arch == snap.archetypes[p[1]]
           e    == arch.entities[p[2]]
           r    == BuildRow(DeferredEntityBuilder_new, arch_info(arch, loadReg),
                            arch, p[2], dst, e)
           w    == commit([world |-> dst, archs |-> dstArch], e, r.b)
       IN  IF r.ok
           THEN /\ dst' = w.world
                /\ dstArch' = w.archs
                /\ work' = Tail(work)
                /\ UNCHANGED lstate
           ELSE /\ lstate' = "panicked"
                /\ UNCHANGED <<dst, dstArch, work>>
    /\ LoadInputs
    /\ NoBufferUse

\* one cell of load_world_arch_snapshot
arch_cell ==
    /\ lstate = "loading"
    /\ loader \in {"arch", "manifest"}
    /\ work # <<>>
    /\ Head(work)[2] # 0
    /\ LET p == Head(work)
           arch == snap.archetypes[p[1]]
           c == CellType(snap, p)
           e == CellEntity(snap, p)
           col == arch.columns[get_column_index(arch, c)]
           r == import(loadReg[c], c, col[p[2]], dst, e)
       IN  IF loadReg[c] = Unregistered
           THEN /\ work' = Tail(work)
                /\ UNCHANGED <<dst, dstArch, lstate>>
           ELSE IF e \notin DOMAIN dst
           THEN /\ lstate' = "panicked"
                /\ UNCHANGED <<dst, dstArch, work>>
           ELSE IF ~r.ok
           THEN /\ work' = Tail(work)
                /\ UNCHANGED <<dst, dstArch, lstate>>
           ELSE /\ dst' = r.world
                /\ dstArch' = dstArch \cup {DOMAIN r.world[e]}
                /\ work' = Tail(work)
                /\ UNCHANGED lstate
    /\ LoadInputs
    /\ NoBufferUse

\* one component of load_world_snapshot
entity_component ==
    /\ lstate = "loading"
    /\ loader = "entity"
    /\ work # <<>>
    /\ LET p == Head(work)
           c == CellType(snap, p)
           e == CellEntity(snap, p)
           r == import(loadReg[c], c, CellValue(snap, p), dst, e)
       IN  IF loadReg[c] = Unregistered \/ ~r.ok
           THEN /\ lstate' = "panicked"
                /\ UNCHANGED <<dst, dstArch, work>>
           ELSE /\ dst' = r.world
                /\ dstArch' = dstArch \cup {DOMAIN r.world[e]}
                /\ work' = Tail(work)
                /\ UNCHANGED lstate
    /\ LoadInputs
    /\ NoBufferUse

\* the loops are over: the load function returns
load_return ==
    /\ lstate = "loading"
    /\ work = <<>>
    /\ lstate' = "done"
    /\ UNCHANGED <<dst, dstArch, work>>
    /\ LoadInputs
    /\ NoBufferUse

NextLoad ==
    \/ load_begin
    \/ defragment_row
    \/ arch_cell
    \/ entity_component
    \/ load_return

SpecLoad == InitLoad /\ [][NextLoad]_vars

SpecLoadEdited == InitLoadEdited /\ [][NextLoad]_vars

SpecLoadInto == InitLoadInto /\ [][NextLoad]_vars

(***************************************************************************)
(* Properties of save and load                                             *)
(***************************************************************************)
\* the loader was given exactly what save wrote, and the same registry
Untampered ==
    /\ snap = save_world_arch_snapshot(srcW, reg)
    /\ loadReg = reg
    /\ dst0 = EmptyWorld

RoundTripDone == lstate = "done" /\ loader = "defragment" /\ Untampered

\* C1 (as claimed): after save then load_world_arch_snapshot_defragment into
\* an empty world, every entity of the saved world and every registered
\* component type read the same in both worlds, values included.
C1_RoundTripIdentity ==
    RoundTripDone =>
        \A e \in DOMAIN srcW, c \in Registered(reg) :
            get(dst, e, c) = get(srcW, e, c)

\* C1 (amended): absence and presence are preserved for every registered
\* type; the value is preserved for types registered in Full mode, and is
\* Default for types registered in the emplace mode, whose constructor
\* ignores the archived cell.
C1_RoundTripFullMode ==
    RoundTripDone =>
        \A e \in DOMAIN srcW, c \in Registered(reg) :
            /\ e \in DOMAIN dst
            /\ get(dst, e, c) =
                 IF reg[c] = "Full" \/ ~get(srcW, e, c).some
                 THEN get(srcW, e, c)
                 ELSE Some(0)

C1_Witness ==
    /\ RoundTripDone
    /\ \E e \in DOMAIN srcW, c \in LComp :
          reg[c] = "Full" /\ get(srcW, e, c) = Some(1) /\ get(dst, e, c) = Some(1)
    /\ \E e \in DOMAIN srcW, c \in LComp :
          reg[c] = "EmplaceIfNotExists" /\ get(srcW, e, c) = Some(1)
    /\ \E e \in DOMAIN srcW, c \in Registered(reg) : ~get(srcW, e, c).some

\* C6: loading through the deferred builder never leaves the destination
\* world with more archetypes than the saved world has, counting every
\* component set an entity occupied during the load.
C6_ArchetypeCountNonIncrease ==
    (loader = "defragment" /\ lstate \in {"loading", "done"} /\ Untampered) =>
        archetype_count(dstArch) <= archetype_count(archetypes(srcW))

C6_Witness ==
    /\ RoundTripDone
    /\ \E e \in DOMAIN dst : DOMAIN dst[e] = LComp
    /\ archetype_count(dstArch) = archetype_count(archetypes(srcW))
    /\ archetype_count(dstArch) = 2

\* a snapshot up to archetype grouping and column order: the entities list,
\* the entities that have a row, and the cells
Canonical(s) ==
    [entities |-> s.entities,
     rows |-> {CellEntity(s, <<x[1], x[2], 0>>) : x \in
                 {y \in (1..Len(s.archetypes)) \X (1..MaxEntities) :
                     y[2] <= Len(s.archetypes[y[1]].entities)}},
     cells |-> {<<CellEntity(s, p), CellType(s, p), CellValue(s, p)>> :
                  p \in Cells(s)}]

\* C7 (as claimed): saving the world obtained by loading a saved snapshot
\* into an empty world gives the same snapshot, up to archetype grouping and
\* column order.
C7_SnapshotRoundTrip ==
    RoundTripDone =>
        Canonical(save_world_arch_snapshot(dst, reg)) = Canonical(snap)

\* a cell the loader fails to decode: damaged, and of a type whose codec
\* reads the cell
DecodeErrors ==
    {p \in Cells(snap) :
        loadReg[CellType(snap, p)] = "Full" /\ ~from_value(CellValue(snap, p)).ok}

MissingCodecs == {p \in Cells(snap) : loadReg[CellType(snap, p)] = Unregistered}

\* the world a load must produce when the cells in DecodeErrors and
\* MissingCodecs are treated as absent
LoadedCells == Cells(snap) \ (DecodeErrors \cup MissingCodecs)

ExpectedComponents(e) ==
    {CellType(snap, p) : p \in {q \in LoadedCells : CellEntity(snap, q) = e}}

ExpectedValue(e, c) ==
    LET p == CHOOSE q \in LoadedCells :
                 CellEntity(snap, q) = e /\ CellType(snap, q) = c
    IN  IF loadReg[c] = "Full" THEN from_value(CellValue(snap, p)).v ELSE 0

ExpectedWorld ==
    [e \in DOMAIN dst |-> [c \in ExpectedComponents(e) |-> ExpectedValue(e, c)]]

\* C9 (as claimed): a decode error on one cell leaves the load running, and
\* the finished load holds every other cell.
C9_DecodeErrorSkipsCellOnly ==
    DecodeErrors # {} =>
        /\ lstate # "panicked"
        /\ lstate = "done" => dst = ExpectedWorld

\* C10 (as claimed): a component type without a codec is skipped, the load
\* completes, and every component with a codec is loaded.
C10_MissingCodecSkipsComponent ==
    (MissingCodecs # {} /\ DecodeErrors = {}) =>
        /\ lstate # "panicked"
        /\ lstate = "done" => dst = ExpectedWorld

(***************************************************************************)
(* Properties of loads of edited snapshots and into occupied worlds        *)
(***************************************************************************)
Max(S) == CHOOSE x \in S : \A y \in S : y <= x

\* some column of the snapshot is shorter or longer than its entities list
StructuralError(s) ==
    \E q \in Columns(s) :
        Len(s.archetypes[q[1]].columns[q[2]]) # Len(s.archetypes[q[1]].entities)

\* C11 (as claimed): when a column's length differs from the length of the
\* entities list of its archetype, the load fails as a whole: it never
\* returns normally, and no component reaches the destination world.
C11_StructuralErrorAbortsLoad ==
    (StructuralError(snap) /\ dst0 = EmptyWorld) =>
        /\ lstate # "done"
        /\ \A e \in DOMAIN dst : dst[e] = NoComponents

\* the rows of archetypes that list a type in more than one column, as
\* <<archetype, row, type>>
DuplicateRows(s) ==
    {x \in (1..Len(s.archetypes)) \X (1..MaxEntities) \X LComp :
        /\ x[2] <= Len(s.archetypes[x[1]].entities)
        /\ Cardinality({i \in 1..Len(s.archetypes[x[1]].component_types) :
                           s.archetypes[x[1]].component_types[i] = x[3]}) > 1}

FirstColumn(s, x) == get_column_index(s.archetypes[x[1]], x[3])

LastColumn(s, x) ==
    Max({i \in 1..Len(s.archetypes[x[1]].component_types) :
            s.archetypes[x[1]].component_types[i] = x[3]})

DuplicateLoaded == lstate = "done" /\ ~StructuralError(snap) /\ dst0 = EmptyWorld

Preexisting ==
    {x \in LEnt \X LComp :
        /\ x[1] \in DOMAIN dst0
        /\ x[2] \in DOMAIN dst0[x[1]]
        /\ \E a \in 1..Len(snap.archetypes) :
              \E r \in 1..Len(snap.archetypes[a].entities) :
                 \E c \in 1..Len(snap.archetypes[a].component_types) :
                    /\ snap.archetypes[a].entities[r] = x[1]
                    /\ snap.archetypes[a].component_types[c] = x[2]}

\* C14: a component present on the target entity before the load keeps its
\* value throughout the load when its type is registered in
\* EmplaceIfNotExists mode, and holds the archived value once the load has
\* returned when its type is registered in Full mode.
C14_EmplaceKeepsFullReplaces ==
    snap = save_world_arch_snapshot(srcW, reg) =>
        \A x \in Preexisting :
            IF loadReg[x[2]] = "EmplaceIfNotExists"
            THEN get(dst, x[1], x[2]) = get(dst0, x[1], x[2])
            ELSE lstate = "done" => get(dst, x[1], x[2]) = get(srcW, x[1], x[2])

C14_Witness ==
    /\ lstate = "done"
    /\ loader = "defragment"
    /\ snap = save_world_arch_snapshot(srcW, reg)
    /\ \E e \in LEnt :
          /\ <<e, 1>> \in Preexisting /\ <<e, 2>> \in Preexisting
          /\ loadReg[1] = "Full" /\ loadReg[2] = "EmplaceIfNotExists"
          /\ dst0[e][1] = 1 /\ srcW[e][1] = 0 /\ dst[e][1] = 0
          /\ dst0[e][2] = 1 /\ srcW[e][2] = 0 /\ dst[e][2] = 1

(***************************************************************************)
(* Loading with entity-id remapping                                        *)
(***************************************************************************)
MaxRows == 2   \* archived entities of the archetype: indices 0..MaxRows-1

AIdx == 0..(MaxRows - 1)
PLACEHOLDER == -1      \* Entity::PLACEHOLDER
TargetComp == 1        \* the component type with the entity field (WiringTable)

\* T::default() of the component: its reference points nowhere
DefaultTarget == PLACEHOLDER

\* the indices a mapper is asked about: the archived ones and the index of
\* PLACEHOLDER, which a Default reference carries
MapIdx == AIdx \cup {PLACEHOLDER}

\* mutant: an index the mapper has no entity for is given entity 0
map_or_first(m, i) == IF m[i] = PLACEHOLDER THEN 0 ELSE m[i]

\* mapper.map(index): the caller's EntityRemapper, any function of the index
map(m, i) == m[i]

\* mutant: the hook leaves the archived index in place
hook_keep(target, m) == target

\* the registered remap hook: comp.target = mapper.map(comp.target.index())
hook(target, m) == map(m, target)

\* mutant: the component is left as it was constructed
apply_hook_skip(pt, p, m) == pt

\* h(ptr_mut, mapper): the hook rewrites the component behind the pointer
apply_hook(pt, p, m) == [pt EXCEPT ![p] = hook(pt[p], m)]

Reverse(s) == [k \in 1..Len(s) |-> s[Len(s) + 1 - k]]

\* archived rows: any set of archived indices, each with a reference to an
\* archived index
RowSeqs ==
    UNION {{[k \in 1..Cardinality(A) |->
               [id |-> sort_unstable(A)[k], target |-> f[sort_unstable(A)[k]]]] :
             f \in [A -> AIdx]} : A \in SUBSET AIdx}

\* arr_dyn: Full decodes one instance per row; every other mode maps over
\* the one-element array [0..length] and so builds one Default instance
arr_dyn(mode, rows) ==
    IF mode = "Full" THEN [k \in 1..Len(rows) |-> rows[k].target]
    ELSE <<DefaultTarget>>

InitRemap ==
    /\ ops = <<>>
    /\ pending_entity = None
    /\ pending_args = <<>>
    /\ alive = Ent
    /\ \E pre \in {None} \cup Ent :
          /\ wcomp = [e \in Ent |-> [c \in Comp |->
                         IF e = pre /\ c = TargetComp THEN 1 ELSE 0]]
          /\ drops = IF pre = None THEN <<>> ELSE <<0>>
          /\ ptarget \in IF pre = None THEN {<<>>} ELSE {<<t>> : t \in Ent}
    /\ moved = {}
    /\ bufState = "live"
    /\ applied = <<>>
    /\ calls = <<>>
    /\ skipped = {}
    /\ recLog = <<>>
    /\ appliedLog = <<>>
    /\ cycles = 0
    /\ structurals = 0
    /\ NoLoad
    /\ NoAux
    /\ rsnap \in RowSeqs
    /\ rmode \in Modes
    /\ mapper \in [MapIdx -> Ent \cup {PLACEHOLDER}]
    /\ rpath \in {"entity", "arrow"}
    /\ rstate = "init"
    /\ rwork = <<>>
    /\ column = <<>>
    /\ built = <<>>

RemapInputs == UNCHANGED <<rsnap, rmode, mapper, rpath, loadVars, auxVars>>

BufferGhosts ==
    UNCHANGED <<bufState, recLog, appliedLog, cycles, structurals>>

\* entity path: enter the loop over the entity snapshots.
\* arrow paths (with and without remapping): build every column with
\* arr_dyn, then loop over the rows in reverse, popping one instance per row.
remap_begin ==
    /\ rstate = "init"
    /\ IF rpath \in {"arrow", "to_world"}
       THEN LET data == arr_dyn(rmode, rsnap)
            IN  /\ column' = [k \in 1..Len(data) |-> Len(drops) + k]
                /\ ptarget' = ptarget \o data
                /\ built' = [p \in (Len(drops) + 1)..(Len(drops) + Len(data)) |->
                                data[p - Len(drops)]]
                /\ drops' = Alloc(drops, Len(data))
                /\ rwork' = Reverse(rsnap)
       ELSE /\ rwork' = rsnap
            /\ UNCHANGED <<column, ptarget, built, drops>>
    /\ rstate' = "loading"
    /\ UNCHANGED <<ops, pending_entity, pending_args, alive, wcomp, moved,
                   applied, calls, skipped>>
    /\ BufferGhosts
    /\ RemapInputs

\* load_world_snapshot_with_remap, one entity snapshot: import_fn puts the
\* component into the world (an id mapped to PLACEHOLDER is skipped)
remap_entity_import ==
    /\ rstate = "loading"
    /\ rpath = "entity"
    /\ rwork # <<>>
    /\ LET row      == Head(rwork)
           entity   == map(mapper, row.id)
           fresh    == rmode = "Full" \/ wcomp[entity][TargetComp] = 0
           original == IF rmode = "Full" THEN row.target ELSE DefaultTarget
       IN  IF entity = PLACEHOLDER
           THEN /\ rwork' = Tail(rwork)
                /\ UNCHANGED <<wcomp, ptarget, built, drops, rstate>>
           ELSE /\ IF fresh
                   THEN /\ wcomp' = [wcomp EXCEPT
                                        ![entity][TargetComp] = NextPayload]
                        /\ ptarget' = Append(ptarget, original)
                        /\ built' = [p \in DOMAIN built \cup {NextPayload} |->
                                        IF p = NextPayload THEN original
                                        ELSE built[p]]
                        /\ drops' = Alloc(drops, 1)
                   ELSE UNCHANGED <<wcomp, ptarget, built, drops>>
                /\ rstate' = "imported"
                /\ UNCHANGED rwork
    /\ UNCHANGED <<ops, pending_entity, pending_args, alive, moved, applied,
                   calls, skipped, column>>
    /\ BufferGhosts
    /\ RemapInputs

\* load_world_snapshot_with_remap, the same entity snapshot: the hook is
\* run on the component of the type that the entity now has in the world
remap_entity_hook ==
    /\ rstate = "imported"
    /\ LET row    == Head(rwork)
           entity == map(mapper, row.id)
       IN  ptarget' = apply_hook(ptarget, wcomp[entity][TargetComp], mapper)
    /\ rwork' = Tail(rwork)
    /\ rstate' = "loading"
    /\ UNCHANGED <<ops, pending_entity, pending_args, alive, wcomp, drops,
                   moved, applied, calls, skipped, column, built>>
    /\ BufferGhosts
    /\ RemapInputs

\* load_arrow_archetype_with_remap: one row of the reversed entity loop
remap_arrow_row ==
    /\ rstate = "loading"
    /\ rpath = "arrow"
    /\ rwork # <<>>
    /\ LET row            == Head(rwork)
           current_entity == map(mapper, row.id)
           comp_ptr       == column[Len(column)]
       IN  IF current_entity = PLACEHOLDER \/ column = <<>>
           THEN /\ rstate' = "panicked"
                /\ UNCHANGED <<ops, pending_entity, pending_args, drops,
                               ptarget, column, rwork>>
           ELSE /\ column' = SubSeq(column, 1, Len(column) - 1)
                /\ ptarget' = apply_hook(ptarget, comp_ptr, mapper)
                /\ IF rmode = "Full" \/ wcomp[current_entity][TargetComp] = 0
                   THEN SetBuf(insert_raw(Buf, current_entity, TargetComp,
                                          comp_ptr))
                   ELSE SetBuf([Buf EXCEPT
                                   !.drops = RunDrops(drops, <<comp_ptr>>)])
                /\ rwork' = Tail(rwork)
                /\ UNCHANGED rstate
    /\ UNCHANGED <<alive, wcomp, moved, applied, calls, skipped, built>>
    /\ BufferGhosts
    /\ RemapInputs

\* apply_with_remap and to_world_reg: buffer.apply(world) and buffer.reset()
\* after the rows
remap_apply ==
    /\ rstate = "loading"
    /\ rpath \in {"arrow", "to_world"}
    /\ rwork = <<>>
    /\ LET f == flush(Buf)
           w == ApplyOps([alive |-> alive, wcomp |-> wcomp, moved |-> moved,
                          calls |-> <<>>, skipped |-> {}], f.ops)
       IN  /\ alive' = w.alive
           /\ wcomp' = w.wcomp
           /\ moved' = w.moved
           /\ calls' = w.calls
           /\ skipped' = w.skipped
           /\ applied' = f.ops
           /\ SetBuf([f EXCEPT !.ops = <<>>, !.pa = <<>>, !.pe = None])
    /\ rstate' = "done"
    /\ UNCHANGED <<rwork, column, ptarget, built>>
    /\ BufferGhosts
    /\ RemapInputs

\* the entity path returns after its last entity snapshot
remap_return ==
    /\ rstate = "loading"
    /\ rpath = "entity"
    /\ rwork = <<>>
    /\ rstate' = "done"
    /\ UNCHANGED <<bufVars, rwork, column, ptarget, built>>
    /\ RemapInputs

NextRemap ==
    \/ remap_begin
    \/ remap_entity_import
    \/ remap_entity_hook
    \/ remap_arrow_row
    \/ remap_apply
    \/ remap_return

SpecRemap == InitRemap /\ [][NextRemap]_vars

\* the component the load left on the entity the row maps to carries the
\* remapped reference of an archived row of that entity
RowRemapped(k) ==
    LET d == map(mapper, rsnap[k].id)
    IN  d # PLACEHOLDER =>
          /\ wcomp[d][TargetComp] # 0
          /\ \E j \in 1..Len(rsnap) :
                /\ map(mapper, rsnap[j].id) = d
                /\ ptarget[wcomp[d][TargetComp]] = map(mapper, rsnap[j].target)

\* C8 (as claimed): after a load with remapping every archived entity's
\* component of the hooked type has target == m(original target index).
C8_RemapCorrect ==
    rstate = "done" => \A k \in 1..Len(rsnap) : RowRemapped(k)

\* C8 (amended): the same, for a component type registered in Full mode; the
\* emplace mode never decodes the archived component, so what it inserts is
\* Default with the hook applied to the default reference.
C8_RemapCorrectFullMode ==
    (rstate = "done" /\ rmode = "Full") => \A k \in 1..Len(rsnap) : RowRemapped(k)

C8_Witness ==
    /\ rstate = "done"
    /\ rmode = "Full"
    /\ Len(rsnap) = MaxRows
    /\ \A k \in 1..Len(rsnap) :
          /\ map(mapper, rsnap[k].id) \in Ent
          /\ map(mapper, rsnap[k].id) # rsnap[k].id
          /\ map(mapper, rsnap[k].target) # rsnap[k].target
          /\ ptarget[wcomp[map(mapper, rsnap[k].id)][TargetComp]] =
                map(mapper, rsnap[k].target)

\* the entities the caller's mapper returns for the archived rows
MapperTargets ==
    {mapper[rsnap[k].id] : k \in 1..Len(rsnap)} \ {PLACEHOLDER}

\* C18: a load with remapping creates, reserves and despawns no entity of
\* the destination world, and changes the components only of entities the
\* caller's mapper returned for an archived row.
C18_NoInventedEntity ==
    [][/\ alive' = alive
       /\ \A e \in Ent : wcomp'[e] # wcomp[e] => e \in MapperTargets]_vars

C18_Witness ==
    /\ rstate = "done"
    /\ Len(rsnap) = 2
    /\ mapper[rsnap[1].id] = PLACEHOLDER
    /\ mapper[rsnap[2].id] = 1
    /\ wcomp[1][TargetComp] # 0
    /\ wcomp[0][TargetComp] = 0
    /\ alive = Ent

(***************************************************************************)
(* Editing a snapshot in memory: ArchetypeSnapshot::add_type, remove_type, *)
(* insert_component and WorldArchSnapshot::purge_null                      *)
(***************************************************************************)
MaxEdits == 2        \* editing calls on one archetype snapshot
MaxArchetypes == 2   \* archetypes of the snapshot given to purge_null

\* Vec::remove(index), index counted from 1
RemoveAt(seq, i) == SubSeq(seq, 1, i - 1) \o SubSeq(seq, i + 1, Len(seq))

has_component(arch, type_name) ==
    \E i \in 1..Len(arch.component_types) : arch.component_types[i] = type_name

StorageTypeFlags == {"Table", "SparseSet"}

add_type(arch, type_name, storage_type) ==
    [entities |-> arch.entities,
     component_types |-> Append(arch.component_types, type_name),
     storage_types |-> Append(arch.storage_types,
                              IF storage_type.some THEN storage_type.v ELSE "Table"),
     columns |-> Append(arch.columns, [k \in 1..Len(arch.entities) |-> Null])]

\* mutant: the storage flag of the removed type stays behind
remove_type_keep_storage(arch, type_name) ==
    IF has_component(arch, type_name)
    THEN LET index == get_column_index(arch, type_name)
         IN  [entities |-> arch.entities,
              component_types |-> RemoveAt(arch.component_types, index),
              storage_types |-> arch.storage_types,
              columns |-> RemoveAt(arch.columns, index)]
    ELSE arch

remove_type(arch, type_name) ==
    IF has_component(arch, type_name)
    THEN LET index == get_column_index(arch, type_name)
         IN  [entities |-> arch.entities,
              component_types |-> RemoveAt(arch.component_types, index),
              storage_types |-> RemoveAt(arch.storage_types, index),
              columns |-> RemoveAt(arch.columns, index)]
    ELSE arch

\* entity_idx is a row index counted from 0, as in the code
insert_component(arch, entity_idx, type_name, value) ==
    IF ~has_component(arch, type_name) \/ entity_idx >= Len(arch.entities)
    THEN [res |-> "Err", arch |-> arch]
    ELSE [res |-> "Ok",
          arch |-> [arch EXCEPT !.columns[get_column_index(arch, type_name)]
                                         [entity_idx + 1] = value]]

\* every archetype snapshot save_world_arch_snapshot can produce
SavedArchetypes ==
    UNION {Range(save_world_arch_snapshot(w, r).archetypes) :
             w \in Worlds, r \in [LComp -> Modes \cup {Unregistered}]}

OnlyEdit ==
    BufferUnused /\ NoLoad /\ NoRemap /\ NoCsv /\ NoManifest /\ NoFile /\ NoExt

EditFrame ==
    UNCHANGED <<bufVars, loadVars, remapVars, csvVars, manVars, fileVars, extVars>>

InitEdit ==
    /\ OnlyEdit
    /\ earch \in SavedArchetypes
    /\ ecalls = 0
    /\ eres = "none"
    /\ psnap = <<>>
    /\ pstate = "none"

edit_add_type ==
    /\ ecalls < MaxEdits
    /\ \E type_name \in LComp, storage_type \in {NoneOpt, Some("SparseSet")} :
          earch' = add_type(earch, type_name, storage_type)
    /\ ecalls' = ecalls + 1
    /\ UNCHANGED <<eres, psnap, pstate>>
    /\ EditFrame

edit_remove_type ==
    /\ ecalls < MaxEdits
    /\ \E type_name \in LComp : earch' = remove_type(earch, type_name)
    /\ ecalls' = ecalls + 1
    /\ UNCHANGED <<eres, psnap, pstate>>
    /\ EditFrame

edit_insert_component ==
    /\ ecalls < MaxEdits
    /\ \E entity_idx \in 0..MaxEntities, type_name \in LComp, x \in Val :
          LET r == insert_component(earch, entity_idx, type_name, to_value(x))
          IN  earch' = r.arch /\ eres' = r.res
    /\ ecalls' = ecalls + 1
    /\ UNCHANGED <<psnap, pstate>>
    /\ EditFrame

NextEdit ==
    \/ edit_add_type
    \/ edit_remove_type
    \/ edit_insert_component

SpecEdit == InitEdit /\ [][NextEdit]_vars

\* C16: every archetype snapshot produced by save_world_arch_snapshot, and
\* every snapshot obtained from one by add_type, remove_type and
\* insert_component calls, has as many columns as component types and as
\* storage types, and every column is as long as the entities list.
C16_SnapshotShape ==
    /\ Len(earch.columns) = Len(earch.component_types)
    /\ Len(earch.storage_types) = Len(earch.component_types)
    /\ \A i \in 1..Len(earch.columns) :
          Len(earch.columns[i]) = Len(earch.entities)

C16_Witness ==
    /\ ecalls = 2
    /\ Len(earch.entities) = 2
    /\ Len(earch.component_types) = 2
    /\ earch.storage_types = <<"Table", "SparseSet">>
    /\ earch.columns[2][2] = to_value(1)
    /\ earch.columns[2][1] = Null
    /\ eres = "Ok"

\* the archetype snapshots purge_null may meet: only their rows matter
RowLists == UNION {[1..n -> LEnt] : n \in 0..MaxEntities}

PurgeInputs ==
    UNION {[1..n -> {[ArchetypeSnapshotDefault EXCEPT !.entities = es] :
                        es \in RowLists}] : n \in 0..MaxArchetypes}

\* Vec::sort_unstable on a sequence: the same elements, repetitions kept
RECURSIVE sort_unstable_seq(_)
sort_unstable_seq(seq) ==
    IF seq = <<>> THEN <<>>
    ELSE LET m == Min(Range(seq))
             i == CHOOSE k \in 1..Len(seq) : seq[k] = m
         IN  <<m>> \o sort_unstable_seq(RemoveAt(seq, i))

purge_null(s) ==
    [s EXCEPT !.entities =
        sort_unstable_seq(Flatten([a \in 1..Len(s.archetypes) |->
                                      s.archetypes[a].entities]))]

InitPurge ==
    /\ OnlyEdit
    /\ earch = <<>>
    /\ ecalls = 0
    /\ eres = "none"
    /\ psnap \in [entities : {<<>>}, archetypes : PurgeInputs]
    /\ pstate = "init"

purge ==
    /\ pstate = "init"
    /\ psnap' = purge_null(psnap)
    /\ pstate' = "purged"
    /\ UNCHANGED <<earch, ecalls, eres>>
    /\ EditFrame

NextPurge == purge

SpecPurge == InitPurge /\ [][NextPurge]_vars

\* the entity indices in the rows of all archetypes
RowEntities(s) ==
    UNION {Range(s.archetypes[a].entities) : a \in 1..Len(s.archetypes)}

\* C15 (as claimed): after purge_null the entities list is the sorted,
\* duplicate-free union of the entity indices in the rows of all archetypes.
C15_PurgeSortedUnion ==
    pstate = "purged" => psnap.entities = sort_unstable(RowEntities(psnap))

(***************************************************************************)
(* Archetype snapshot <-> columnar CSV (src/csv_archive.rs)                *)
(***************************************************************************)
Keys == {"a", "b"}   \* keys of object cells

\* serde_json::Value::Object with scalar members
Object(m) == [k |-> "object", v |-> 0, m |-> m]

\* cells without nested structure: null, a scalar, flat objects
FlatCells ==
    {Null, to_value(1)} \cup
    {Object([f \in ks |-> to_value(1)]) : ks \in SUBSET Keys}

\* the second part of a CSV header: a subfield, or none for a whole value
NoField == "None"

Header(component, field) == [comp |-> component, field |-> field]

infer_schema(component, value) ==
    IF value.k = "object"
    THEN {Header(component, f) : f \in DOMAIN value.m}
    ELSE {Header(component, NoField)}

\* the union of the fields inferred from every cell of column c
Schema(snapshot, c) ==
    UNION {infer_schema(snapshot.component_types[c], snapshot.columns[c][r]) :
             r \in 1..Len(snapshot.columns[c])}

\* Value::get(key) on an object cell
value_get(item, key) ==
    IF key \in DOMAIN item.m THEN Some(item.m[key]) ELSE NoneOpt

\* ColumnarCsv: the headers with their columns (header_index_map and
\* columns), and row_index
columnar_from_snapshot(snapshot) ==
    LET owner(h) == CHOOSE c \in 1..Len(snapshot.component_types) :
                       h \in Schema(snapshot, c)
        headers == UNION {Schema(snapshot, c) :
                            c \in 1..Len(snapshot.component_types)}
    IN  [headers |-> headers,
         columns |-> [h \in headers |->
             [r \in 1..Len(snapshot.entities) |->
                 LET item == snapshot.columns[owner(h)][r]
                 IN  IF item.k = "object"
                     THEN IF value_get(item, h.field).some
                          THEN value_get(item, h.field).v
                          ELSE Null
                     ELSE item]],
         row_index |-> snapshot.entities]

\* the headers of one component
component_fields(csv, comp) == {h \in csv.headers : h.comp = comp}

\* field_name.as_ref().unwrap() on a header without subfield
UnwrapPanics(csv) ==
    /\ csv.row_index # <<>>
    /\ \E h \in csv.headers :
          /\ h.field = NoField
          /\ Cardinality(component_fields(csv, h.comp)) > 1

\* the column built for one component
component_column(csv, comp) ==
    LET fields == component_fields(csv, comp)
    IN  [row \in 1..Len(csv.row_index) |->
            IF fields = {Header(comp, NoField)}
            THEN csv.columns[Header(comp, NoField)][row]
            ELSE Object([f \in {h.field : h \in fields} |->
                            csv.columns[Header(comp, f)][row]])]

\* to_archetype_snapshot, the components taken in the order comps
to_archetype_snapshot(csv, comps) ==
    [entities |-> csv.row_index,
     component_types |-> comps,
     storage_types |-> [i \in 1..Len(comps) |-> "Table"],
     columns |-> [i \in 1..Len(comps) |-> component_column(csv, comps[i])]]

\* the orders a HashMap may yield a set of keys in
Orders(S) ==
    {q \in [1..Cardinality(S) -> S] : \A i, j \in 1..Cardinality(S) :
                                          i # j => q[i] # q[j]}

\* archetype snapshots with flat cells, entities es and component types
\* ts: a sorted entities list, one cell per row in every column
CsvInputs(es, ts) ==
    {[entities |-> sort_unstable(es),
      component_types |-> ts,
      storage_types |-> [i \in 1..Len(ts) |-> "Table"],
      columns |-> cols] :
        cols \in [1..Len(ts) -> [1..Cardinality(es) -> FlatCells]]}

OnlyCsv ==
    BufferUnused /\ NoLoad /\ NoRemap /\ NoEdit /\ NoManifest /\ NoFile /\ NoExt

CsvFrame ==
    UNCHANGED <<bufVars, loadVars, remapVars, editVars, manVars, fileVars, extVars>>

InitCsv ==
    /\ OnlyCsv
    /\ \E es \in SUBSET LEnt :
          \E cs \in SUBSET LComp :
             \E ts \in Orders(cs) : csnap \in CsvInputs(es, ts)
    /\ ccsv = <<>>
    /\ cback = <<>>
    /\ cstate = "snapshot"

csv_from_snapshot ==
    /\ cstate = "snapshot"
    /\ ccsv' = columnar_from_snapshot(csnap)
    /\ cstate' = "csv"
    /\ UNCHANGED <<csnap, cback>>
    /\ CsvFrame

csv_to_snapshot ==
    /\ cstate = "csv"
    /\ IF UnwrapPanics(ccsv)
       THEN cstate' = "panicked" /\ UNCHANGED cback
       ELSE /\ \E comps \in Orders({h.comp : h \in ccsv.headers}) :
                  cback' = to_archetype_snapshot(ccsv, comps)
            /\ cstate' = "back"
    /\ UNCHANGED <<csnap, ccsv>>
    /\ CsvFrame

NextCsv ==
    \/ csv_from_snapshot
    \/ csv_to_snapshot

SpecCsv == InitCsv /\ [][NextCsv]_vars

\* the snapshot as a map from component type to column
ColumnsByType(s) ==
    [t \in Range(s.component_types) |->
        s.columns[get_column_index(s, t)]]

\* C17 (as claimed): for an archetype snapshot whose cells have no nested
\* structure, the conversion to columnar CSV and back completes and gives a
\* snapshot with the same entities, the same component types and the same
\* value in every cell.
C17_CsvRoundTrip ==
    /\ cstate # "panicked"
    /\ cstate = "back" =>
          /\ cback.entities = csnap.entities
          /\ ColumnsByType(cback) = ColumnsByType(csnap)

(***************************************************************************)
(* Loading a world from a manifest (src/aurora_archive.rs)                 *)
(***************************************************************************)
MaxSources == 2   \* archetypes listed by the manifest

\* what follows the scheme of a source URL: a name, a relative path, an
\* absolute path
Rests == {<<"x">>, <<"y">>, <<"/", "x">>}

Schemes == {"file://", "embed://", "http://"}

\* the source URL scheme ++ rest
Url(scheme, rest) == [scheme |-> scheme, rest |-> rest]

Urls == {Url(sc, rest) : sc \in Schemes, rest \in Rests}

\* impl From<&str> for AuroraLocation: strip_prefix("file://"), then
\* strip_prefix("embed://")
AuroraLocation_from(url) ==
    IF url.scheme = "file://" THEN [loc |-> "File", v |-> url.rest]
    ELSE IF url.scheme = "embed://" THEN [loc |-> "Embed", v |-> url.rest]
    ELSE [loc |-> "Unknown", v |-> url.rest]

is_absolute(path) == path # <<>> /\ path[1] = "/"

BaseDirs == {<<"/", "m">>, <<"d">>}

\* mutant: the base directory is not used
full_path_no_base(base_dir, raw_path) == raw_path

\* FsBlobLoader::load_blob: the path that is read
full_path(base_dir, raw_path) ==
    IF is_absolute(raw_path) THEN raw_path ELSE base_dir \o raw_path

\* blobs: bytes that parse into an archetype snapshot, bytes parse_blob
\* rejects, and (embedded only) a string that is not base64
Blobs == {"snapshot", "unparsable", "bad_base64"}

\* mutant: a missing name yields an empty blob that parses
embed_get_or_default(embed, name) ==
    IF name \in DOMAIN embed THEN Some(embed[name]) ELSE Some("snapshot")

\* manifest.world.embed.get(&name)
embed_get(embed, name) ==
    IF name \in DOMAIN embed THEN Some(embed[name]) ELSE NoneOpt

\* the "Resolve blob" match of load_world_manifest_with_loader for one
\* archetype: where it looked, and what it got
resolve_blob(url, embed, files, base_dir) ==
    LET loc == AuroraLocation_from(url)
    IN  IF loc.loc = "File"
        THEN LET full == full_path(base_dir, loc.v)
             IN  [kind |-> "file", at |-> full, found |-> full \in DOMAIN files,
                  res |-> IF full \in DOMAIN files THEN files[full] ELSE "Err"]
        ELSE IF loc.loc = "Embed"
        THEN LET blob == embed_get(embed, loc.v)
             IN  [kind |-> "embed", at |-> loc.v, found |-> blob.some,
                  res |-> IF ~blob.some \/ blob.v = "bad_base64"
                          THEN "Err" ELSE blob.v]
        ELSE [kind |-> "unknown", at |-> <<>>, found |-> FALSE, res |-> "Err"]

ManifestWorld0 == [resources |-> FALSE, reserved |-> FALSE, loaded |-> {}]

OnlyManifest ==
    BufferUnused /\ NoLoad /\ NoRemap /\ NoEdit /\ NoCsv /\ NoFile /\ NoExt

ManifestFrame ==
    UNCHANGED <<bufVars, loadVars, remapVars, editVars, csvVars, fileVars, extVars>>

ManifestInputs == UNCHANGED <<marchs, membed, mfiles, mbase>>

InitManifest ==
    /\ OnlyManifest
    /\ marchs \in UNION {[1..n -> Urls] : n \in 0..MaxSources}
    /\ membed \in UNION {[ns -> Blobs] : ns \in SUBSET {<<"x">>, <<"y">>}}
    /\ mbase \in BaseDirs
    /\ mfiles \in UNION {[ps -> {"snapshot"}] :
                           ps \in SUBSET {mbase \o <<"x">>, mbase \o <<"y">>,
                                          <<"/", "x">>}}
    /\ mstate = "init"
    /\ mparsed = <<>>
    /\ mlog = <<>>
    /\ mworld = ManifestWorld0

\* load_world_resource
man_begin ==
    /\ mstate = "init"
    /\ mworld' = [mworld EXCEPT !.resources = TRUE]
    /\ mstate' = "resolving"
    /\ UNCHANGED <<mparsed, mlog>>
    /\ ManifestInputs
    /\ ManifestFrame

\* "Parse all blobs first": one archetype of the first loop
man_resolve ==
    /\ mstate = "resolving"
    /\ Len(mlog) < Len(marchs)
    /\ LET r == resolve_blob(marchs[Len(mlog) + 1], membed, mfiles, mbase)
       IN  /\ mlog' = Append(mlog, [kind |-> r.kind, at |-> r.at,
                                    found |-> r.found])
           /\ IF r.res = "Err"
              THEN mstate' = "err" /\ UNCHANGED mparsed
              ELSE IF r.res = "unparsable"
              THEN mstate' = "panicked" /\ UNCHANGED mparsed
              ELSE mparsed' = Append(mparsed, Len(mlog) + 1) /\ UNCHANGED mstate
    /\ UNCHANGED mworld
    /\ ManifestInputs
    /\ ManifestFrame

\* "Reserve entities"
man_reserve ==
    /\ mstate = "resolving"
    /\ Len(mlog) = Len(marchs)
    /\ mworld' = [mworld EXCEPT !.reserved = TRUE]
    /\ mstate' = "loading"
    /\ UNCHANGED <<mparsed, mlog>>
    /\ ManifestInputs
    /\ ManifestFrame

\* "Load data": one archetype of the last loop
man_load_archetype ==
    /\ mstate = "loading"
    /\ mparsed # <<>>
    /\ mworld' = [mworld EXCEPT !.loaded = @ \cup {Head(mparsed)}]
    /\ mparsed' = Tail(mparsed)
    /\ UNCHANGED <<mstate, mlog>>
    /\ ManifestInputs
    /\ ManifestFrame

\* Ok(())
man_return ==
    /\ mstate = "loading"
    /\ mparsed = <<>>
    /\ mstate' = "ok"
    /\ UNCHANGED <<mparsed, mlog, mworld>>
    /\ ManifestInputs
    /\ ManifestFrame

NextManifest ==
    \/ man_begin
    \/ man_resolve
    \/ man_reserve
    \/ man_load_archetype
    \/ man_return

SpecManifest == InitManifest /\ [][NextManifest]_vars

\* the archetypes whose source is embed://X with no X in the embed map
MissingEmbeds ==
    {i \in 1..Len(marchs) :
        marchs[i].scheme = "embed://" /\ marchs[i].rest \notin DOMAIN membed}

\* C12: when an archetype's source is embed://X and the embed map has no X,
\* the load never returns Ok and inserts no component of any archetype, the
\* ones listed before the failing one included; it returns an error as soon
\* as it reaches that archetype.
C12_MissingEmbedFailsLoad ==
    MissingEmbeds # {} =>
        /\ mstate \notin {"loading", "ok"}
        /\ mworld.loaded = {}
        /\ ~mworld.reserved
        /\ \A i \in MissingEmbeds : Len(mlog) >= i => mstate = "err"

C12_Witness ==
    /\ MissingEmbeds = {2}
    /\ Len(mlog) = 2
    /\ mlog[1].found
    /\ mparsed = <<1>>
    /\ mstate = "err"
    /\ mworld.loaded = {}

\* C19: a source embed://X is found exactly when the embed map contains X;
\* a source file://Y is looked up at Y when Y is absolute and at Y under
\* the base directory otherwise; a source with another scheme makes the
\* load return an error.
C19_UrlResolution ==
    \A i \in 1..Len(mlog) :
        /\ marchs[i].scheme = "embed://" =>
              /\ mlog[i].kind = "embed"
              /\ mlog[i].at = marchs[i].rest
              /\ mlog[i].found <=> marchs[i].rest \in DOMAIN membed
        /\ marchs[i].scheme = "file://" =>
              /\ mlog[i].kind = "file"
              /\ mlog[i].at = IF marchs[i].rest[1] = "/" THEN marchs[i].rest
                              ELSE mbase \o marchs[i].rest
        /\ marchs[i].scheme \notin {"embed://", "file://"} =>
              /\ mlog[i].kind = "unknown"
              /\ mstate = "err"

C19_Witness ==
    /\ mstate = "err"
    /\ Len(mlog) = 2
    /\ marchs[1] = Url("file://", <<"x">>)
    /\ mlog[1] = [kind |-> "file", at |-> mbase \o <<"x">>, found |-> TRUE]
    /\ marchs[2].scheme = "http://"

(***************************************************************************)
(* Manifest files: AuroraWorldManifest::save_to and load_from              *)
(***************************************************************************)
\* file extensions: Path::extension() of the path, "" when it has none
Extensions == {"json", "toml", "JSON", "TOML", "txt", ""}

Paths == [stem : {"world", "backup"}, ext : Extensions]

extension(path) == path.ext

to_lowercase(ext) ==
    IF ext = "JSON" THEN "json" ELSE IF ext = "TOML" THEN "toml" ELSE ext

\* the manifests that are saved: the sources of their archetypes
Manifests == UNION {[1..n -> Urls] : n \in 0..1}

\* serde_json::to_string_pretty / toml::to_string_pretty: a document in the
\* syntax of the format
to_string_pretty(format, manifest) == [syntax |-> format, doc |-> manifest]

\* serde_json::from_str / toml::from_str: text in the other syntax is an
\* error
from_str(format, content) ==
    IF content.syntax = format THEN Ok(content.doc) ELSE Err

\* format.unwrap_or_default(): ManifestOutputFormat's default is Toml
unwrap_or_default(format) == IF format.some THEN format.v ELSE "Toml"

\* the match on the extension in save_to
save_format(path) ==
    LET ext == to_lowercase(extension(path))
    IN  IF ext = "json" THEN Some("Json")
        ELSE IF ext = "toml" THEN Some("Toml")
        ELSE NoneOpt

\* read_manifest_from_file with format_hint = None
read_manifest_from_file(path, content) ==
    LET ext == to_lowercase(extension(path))
    IN  IF ext = "json" THEN from_str("Json", content)
        ELSE IF ext = "toml" THEN from_str("Toml", content)
        ELSE Err

OnlyFile ==
    BufferUnused /\ NoLoad /\ NoRemap /\ NoEdit /\ NoCsv /\ NoManifest /\ NoExt

FileFrame ==
    UNCHANGED <<bufVars, loadVars, remapVars, editVars, csvVars, manVars, extVars>>

InitFile ==
    /\ OnlyFile
    /\ fpath \in Paths
    /\ fman \in Manifests
    /\ fdisk = <<>>
    /\ fres = <<>>
    /\ fstate = "init"

save_to ==
    /\ fstate = "init"
    /\ fdisk' = to_string_pretty(unwrap_or_default(save_format(fpath)), fman)
    /\ fstate' = "saved"
    /\ UNCHANGED <<fpath, fman, fres>>
    /\ FileFrame

load_from ==
    /\ fstate = "saved"
    /\ fres' = read_manifest_from_file(fpath, fdisk)
    /\ fstate' = "loaded"
    /\ UNCHANGED <<fpath, fman, fdisk>>
    /\ FileFrame

NextFile ==
    \/ save_to
    \/ load_from

SpecFile == InitFile /\ [][NextFile]_vars

\* C20 (as claimed): for every path p, the file written by save_to(p) is
\* read back by load_from(p) as the same manifest.
C20_SaveLoadSamePath ==
    fstate = "loaded" => (fres.ok /\ fres.v = fman)


(***************************************************************************)
(* The Archive facade (src/traits.rs) and its three implementations        *)
(***************************************************************************)
ArchiveKinds == {"WorldSnapshot", "AuroraWorldManifest", "WorldArrowSnapshot"}

\* save_world_snapshot: one EntitySnapshot per entity of the world, in the
\* order the world iterates them, with the components the registry exports
save_world_snapshot(world, r, order) ==
    [entities |->
        [i \in 1..Len(order) |->
            [id |-> order[i],
             components |->
                 {[type |-> c, value |-> export(r[c], world, order[i], c).v] :
                     c \in {d \in Registered(r) : d \in DOMAIN world[order[i]]}}]]]

\* From<&WorldArchSnapshot> for WorldWithAurora: every archetype that has
\* rows becomes an embedded CSV blob; archetypes without rows are skipped
WorldWithAurora_from(snapshot) ==
    LET HasRows(arch) == arch.entities # <<>>
        kept == SelectSeq(snapshot.archetypes, HasRows)
    IN  [embed |-> [i \in 1..Len(kept) |-> columnar_from_snapshot(kept[i])]]

\* From<&WorldWithAurora> for WorldArchSnapshot: entities is the BTreeSet of
\* the ids of all parsed archetypes
WorldArchSnapshot_from(manifest) ==
    [entities |-> sort_unstable(UNION {Range(manifest.embed[i].row_index) :
                                         i \in 1..Len(manifest.embed)})]

\* WorldArrowSnapshot::from_world_reg: entities is every entity index of the
\* world; each archetype table lists its own rows
from_world_reg(world, r, order) ==
    LET snapshot == save_world_arch_snapshot(world, r)
    IN  [entities |-> order,
         archetypes |-> [i \in 1..Len(snapshot.archetypes) |->
                            snapshot.archetypes[i].entities]]

\* Archive::get_entities: WorldSnapshot does not override the trait's
\* default body, the manifest and the Arrow snapshot do
get_entities(kind, archive) ==
    CASE kind = "WorldSnapshot" -> <<>>
      [] kind = "AuroraWorldManifest" -> WorldArchSnapshot_from(archive).entities
      [] kind = "WorldArrowSnapshot" -> archive.entities

OnlyFacade ==
    /\ BufferUnused /\ NoLoad /\ NoRemap
    /\ NoEdit /\ NoCsv /\ NoManifest /\ NoFile /\ NoZip

FacadeFrame ==
    UNCHANGED <<bufVars, loadVars, remapVars, editVars, csvVars, manVars,
                fileVars, zipVars>>

InitFacade ==
    /\ OnlyFacade
    /\ akind \in ArchiveKinds
    /\ asrc \in [world : Worlds, reg : [LComp -> {"Full", Unregistered}]]
    /\ aarchive = <<>>
    /\ aents = <<>>
    /\ astate = "init"

\* Archive::create
facade_create ==
    /\ astate = "init"
    /\ \E order \in Orders(DOMAIN asrc.world) :
          aarchive' =
            CASE akind = "WorldSnapshot" ->
                     save_world_snapshot(asrc.world, asrc.reg, order)
              [] akind = "AuroraWorldManifest" ->
                     WorldWithAurora_from(
                         save_world_arch_snapshot(asrc.world, asrc.reg))
              [] akind = "WorldArrowSnapshot" ->
                     from_world_reg(asrc.world, asrc.reg, order)
    /\ astate' = "created"
    /\ UNCHANGED <<akind, asrc, aents>>
    /\ FacadeFrame

\* Archive::get_entities
facade_get_entities ==
    /\ astate = "created"
    /\ IF akind = "AuroraWorldManifest"
          /\ \E i \in 1..Len(aarchive.embed) : UnwrapPanics(aarchive.embed[i])
       THEN astate' = "panicked" /\ UNCHANGED aents
       ELSE /\ aents' = get_entities(akind, aarchive)
            /\ astate' = "asked"
    /\ UNCHANGED <<akind, asrc, aarchive>>
    /\ FacadeFrame

NextFacade ==
    \/ facade_create
    \/ facade_get_entities

SpecFacade == InitFacade /\ [][NextFacade]_vars

\* the entity ids an archive holds
ArchiveEntities(kind, archive) ==
    CASE kind = "WorldSnapshot" ->
             {archive.entities[i].id : i \in 1..Len(archive.entities)}
      [] kind = "AuroraWorldManifest" ->
             UNION {Range(archive.embed[i].row_index) :
                      i \in 1..Len(archive.embed)}
      [] kind = "WorldArrowSnapshot" ->
             Range(archive.entities) \cup
             UNION {Range(archive.archetypes[i]) :
                      i \in 1..Len(archive.archetypes)}

\* C21 (as claimed): for each of the three archive types, get_entities
\* returns all the entity ids present in the archive.
C21_GetEntitiesReturnsAll ==
    /\ astate # "panicked"
    /\ astate = "asked" => Range(aents) = ArchiveEntities(akind, aarchive)


(***************************************************************************)
(* Sparse entity lists and the ZIP container                               *)
(* (src/binary_archive/world_snapshot/sparse_entitiy_list.rs,              *)
(*  src/binary_archive/world_snapshot/zip_snapshot.rs)                     *)
(***************************************************************************)
MaxIds == 3       \* length of the entities list given to to_zip

\* u32::MAX, with the width of u32 scaled down to 2 bits
U32_MAX == 3
U32 == 0..U32_MAX

\* u32::wrapping_add: what `+` computes when overflow checks are off
wrapping_add(a, b) == (a + b) % (U32_MAX + 1)

SparseSegment_Single(val) == [seg |-> "Single", start |-> val, end |-> val]
SparseSegment_Range(start, end) == [seg |-> "Range", start |-> start, end |-> end]

\* the inner loop of from_sorted: the last index of the run that starts at i
RECURSIVE run_end(_, _)
run_end(ids, i) ==
    IF i + 1 <= Len(ids) /\ ids[i + 1] = wrapping_add(ids[i], 1)
    THEN run_end(ids, i + 1)
    ELSE i

\* the outer loop of from_sorted, from index i on
RECURSIVE from_sorted_at(_, _)
from_sorted_at(ids, i) ==
    IF i > Len(ids) THEN <<>>
    ELSE LET start == ids[i]
             end == ids[run_end(ids, i)]
         IN  <<IF start = end THEN SparseSegment_Single(start)
               ELSE SparseSegment_Range(start, end)>>
             \o from_sorted_at(ids, run_end(ids, i) + 1)

from_sorted(ids) == [segments |-> from_sorted_at(ids, 1)]

\* `ids[i] + 1` is evaluated for every index that has a successor; it
\* overflows when ids[i] is u32::MAX
AddOverflows(ids) == \E i \in 1..(Len(ids) - 1) : ids[i] = U32_MAX

from_unsorted(ids) == from_sorted(sort_unstable_seq(ids))

to_vec(list) ==
    Flatten([k \in 1..Len(list.segments) |->
        LET seg == list.segments[k]
        IN  IF seg.seg = "Single" THEN <<seg.start>>
            ELSE [j \in 1..(seg.end - seg.start + 1) |-> seg.start + j - 1]])

\* rmp_serde::to_vec of a SparseU32List: each segment is written as its
\* variant name with the variant's fields
rmp_to_vec(list) ==
    [k \in 1..Len(list.segments) |->
        LET seg == list.segments[k]
        IN  IF seg.seg = "Single"
            THEN [variant |-> "Single", fields |-> <<seg.start>>]
            ELSE [variant |-> "Range", fields |-> <<seg.start, seg.end>>]]

\* rmp_serde::from_slice::<SparseU32List>
rmp_from_slice(raw) ==
    [segments |-> [k \in 1..Len(raw) |->
        IF raw[k].variant = "Single"
        THEN SparseSegment_Single(raw[k].fields[1])
        ELSE SparseSegment_Range(raw[k].fields[1], raw[k].fields[2])]]

META_TOML == "meta.toml"
ENTITIES_MSGPACK == "entities.msgpack"

OnlyZip ==
    /\ BufferUnused /\ NoLoad /\ NoRemap
    /\ NoEdit /\ NoCsv /\ NoManifest /\ NoFile /\ NoFacade

ZipFrame ==
    UNCHANGED <<bufVars, loadVars, remapVars, editVars, csvVars, manVars,
                fileVars, facVars>>

InitZip ==
    /\ OnlyZip
    /\ zids \in UNION {[1..n -> U32] : n \in 0..MaxIds}
    /\ zzip = <<>>
    /\ zback = <<>>
    /\ zstate = "init"

\* WorldArrowSnapshot::to_zip. A build with overflow checks (the debug and
\* test profiles) panics on an overflowing `+`, a build without wraps
to_zip ==
    /\ zstate = "init"
    /\ \E overflow_checks \in BOOLEAN :
          IF overflow_checks /\ AddOverflows(sort_unstable_seq(zids))
          THEN zstate' = "panicked" /\ UNCHANGED zzip
          ELSE /\ zzip' = [name \in {META_TOML, ENTITIES_MSGPACK} |->
                             IF name = ENTITIES_MSGPACK
                             THEN rmp_to_vec(from_unsorted(zids))
                             ELSE <<>>]
               /\ zstate' = "zipped"
    /\ UNCHANGED <<zids, zback>>
    /\ ZipFrame

\* WorldArrowSnapshot::from_zip
from_zip ==
    /\ zstate = "zipped"
    /\ zback' = Ok([entities |->
                      IF ENTITIES_MSGPACK \in DOMAIN zzip
                      THEN to_vec(rmp_from_slice(zzip[ENTITIES_MSGPACK]))
                      ELSE <<>>])
    /\ zstate' = "unzipped"
    /\ UNCHANGED <<zids, zzip>>
    /\ ZipFrame

NextZip ==
    \/ to_zip
    \/ from_zip

SpecZip == InitZip /\ [][NextZip]_vars

\* C22 (as claimed): for every list of ids, writing the list as a sparse
\* list and expanding it again gives the ids in ascending order with the
\* same multiplicity, so to_zip followed by from_zip completes and gives
\* back the snapshot's sorted entities list.
C22_SparseListRoundTrip ==
    /\ zstate # "panicked"
    /\ zstate = "unzipped" =>
          /\ zback.ok
          /\ zback.v.entities = sort_unstable_seq(zids)


(***************************************************************************)
(* Further properties of the command buffer                                *)
(***************************************************************************)
\* the recorded call h acts on component c of entity e
Touches(h, e, c) ==
    CASE h.op = "insert"       -> h.entity = e /\ h.comp_id = c
      [] h.op = "insert_batch" -> h.comp_id = c /\ e \in Range(h.entities)
      [] h.op = "remove"       -> h.entity = e /\ h.comp_id = c
      [] OTHER                 -> FALSE

\* what the recorded call h leaves in component c of entity e: a payload,
\* or 0 for no component
Effect(h, e) ==
    CASE h.op = "insert"       -> h.payload
      [] h.op = "insert_batch" ->
             h.payloads[CHOOSE k \in 1..Len(h.entities) : h.entities[k] = e]
      [] OTHER                 -> 0

LastTouch(log, e, c) ==
    Max({k \in 1..Len(log) : Touches(log[k], e, c)})

\* C23 (as claimed): after apply, every component of every entity that
\* still exists is what the most recently recorded call on that entity and
\* component type left: the payload of the last insert or batch insert, or
\* no component after a remove; a component no call acted on is unchanged.
C23_LastRecordedDecides ==
    cycles > 0 =>
        \A e \in alive, c \in Comp :
            wcomp[e][c] =
                IF \E k \in 1..Len(appliedLog) : Touches(appliedLog[k], e, c)
                THEN Effect(appliedLog[LastTouch(appliedLog, e, c)], e)
                ELSE 0


DistinctIds(args) ==
    \A i, j \in 1..Len(args) : i # j => args[i].comp_id # args[j].comp_id

\* C29: every ModifyEntity op that flush produces carries pairwise distinct
\* component ids, in the op list and in what apply hands to the bulk insert.
C29_DistinctComponentIds ==
    /\ \A k \in 1..Len(ops) : IsModify(ops[k]) => DistinctIds(ops[k].args)
    /\ \A k \in 1..Len(applied) :
          IsModify(applied[k]) => DistinctIds(applied[k].args)

\* an applied op whose pending list named one component twice and another
\* component besides
C29_Witness ==
    \E k \in 1..Len(applied) :
        /\ IsModify(applied[k])
        /\ Len(applied[k].src) > Len(applied[k].args)
        /\ Len(applied[k].args) >= 2


(***************************************************************************)
(* Further properties of loads with remapping                              *)
(***************************************************************************)
\* every component the load constructed that the world holds carries the
\* reference the hook makes of the one it was constructed with
WorldHoldsRemapped ==
    \A e \in Ent :
        LET p == wcomp[e][TargetComp]
        IN  p \in DOMAIN built => ptarget[p] = hook(built[p], mapper)

\* C24 (as claimed): in a load with remapping, on the per-entity path and
\* on the Arrow path alike, the hook rewrites a component after it is
\* constructed and before it is inserted, so at no point does the world
\* hold a component of the hooked type with an un-remapped reference.
C24_NeverUnremappedInWorld == WorldHoldsRemapped

\* C24 (amended): on the Arrow path the hook runs on the constructed
\* instance before it is recorded in the command buffer, so the world never
\* holds it un-remapped; the per-entity path imports the component into the
\* world first and runs the hook on it in place right afterwards, so for a
\* Full-mode type the world holds it un-remapped only between these two
\* steps.
C24_HookBeforeArrowInsert ==
    /\ rpath = "arrow" => WorldHoldsRemapped
    /\ (rpath = "entity" /\ rmode = "Full" /\ rstate # "imported") =>
          WorldHoldsRemapped

\* an Arrow load has put a component into the world whose reference the
\* hook changed
C24_Witness ==
    /\ rpath = "arrow"
    /\ rstate = "done"
    /\ \E e \in Ent :
          LET p == wcomp[e][TargetComp]
          IN  /\ p \in DOMAIN built
              /\ p \in moved
              /\ hook(built[p], mapper) # built[p]
              /\ ptarget[p] = hook(built[p], mapper)


(***************************************************************************)
(* Loading an Arrow archetype without remapping                            *)
(* (src/binary_archive/world_snapshot.rs: to_world_reg)                    *)
(***************************************************************************)
\* the world after to_world_reg has reserved the entities: every entity
\* exists, one of them may hold a component of the type already
InitToWorld ==
    /\ ops = <<>>
    /\ pending_entity = None
    /\ pending_args = <<>>
    /\ alive = Ent
    /\ \E pre \in {None} \cup Ent :
          /\ wcomp = [e \in Ent |-> [c \in Comp |->
                         IF e = pre /\ c = TargetComp THEN 1 ELSE 0]]
          /\ drops = IF pre = None THEN <<>> ELSE <<0>>
          /\ ptarget \in IF pre = None THEN {<<>>} ELSE {<<t>> : t \in Ent}
    /\ moved = {}
    /\ bufState = "live"
    /\ applied = <<>>
    /\ calls = <<>>
    /\ skipped = {}
    /\ recLog = <<>>
    /\ appliedLog = <<>>
    /\ cycles = 0
    /\ structurals = 0
    /\ NoLoad
    /\ NoAux
    /\ rsnap \in RowSeqs
    /\ rmode \in Modes
    /\ mapper = <<>>
    /\ rpath = "to_world"
    /\ rstate = "init"
    /\ rwork = <<>>
    /\ column = <<>>
    /\ built = <<>>

\* load_arrow_archetype_to_world: one row of the reversed entity loop
to_world_row ==
    /\ rstate = "loading"
    /\ rpath = "to_world"
    /\ rwork # <<>>
    /\ LET row      == Head(rwork)
           entity   == row.id
           comp_ptr == column[Len(column)]
       IN  IF entity \notin alive
           THEN /\ rstate' = "failed"
                /\ UNCHANGED <<ops, pending_entity, pending_args, drops,
                               column, rwork>>
           ELSE IF column = <<>>
           THEN /\ rstate' = "panicked"
                /\ UNCHANGED <<ops, pending_entity, pending_args, drops,
                               column, rwork>>
           ELSE /\ column' = SubSeq(column, 1, Len(column) - 1)
                /\ IF rmode = "Full" \/ wcomp[entity][TargetComp] = 0
                   THEN SetBuf(insert_raw(Buf, entity, TargetComp, comp_ptr))
                   ELSE SetBuf([Buf EXCEPT
                                   !.drops = RunDrops(drops, <<comp_ptr>>)])
                /\ rwork' = Tail(rwork)
                /\ UNCHANGED rstate
    /\ UNCHANGED <<alive, wcomp, moved, applied, calls, skipped, ptarget,
                   built>>
    /\ BufferGhosts
    /\ RemapInputs

NextToWorld ==
    \/ remap_begin
    \/ to_world_row
    \/ remap_apply

SpecToWorld == InitToWorld /\ [][NextToWorld]_vars

\* C28 (as claimed): in every registration mode the dynamic column
\* constructor returns exactly one instance per row of the column, so the
\* loader pops one instance for each entity of the archetype and never
\* finds the column exhausted.
C28_OneInstancePerRow ==
    /\ rstate # "init" => Cardinality(DOMAIN built) = Len(rsnap)
    /\ rstate # "panicked"


(***************************************************************************)
(* Further properties of the loaders                                       *)
(***************************************************************************)
\* the defragment loader is about to build and commit a row
RowUnderway == lstate = "loading" /\ loader = "defragment" /\ work # <<>>

\* the instances ctor(&col[row], &bump) allocates in the arena for one row,
\* up to the first unwrap that panics
RECURSIVE ctor_calls(_, _, _)
ctor_calls(info, arch, row) ==
    IF info = <<>> THEN 0
    ELSE LET x == Head(info)
         IN  IF row > Len(arch.columns[x.col_idx])
                \/ ~dyn_ctor(x.mode, arch.columns[x.col_idx][row]).ok
             THEN 0
             ELSE 1 + ctor_calls(Tail(info), arch, row)

\* the instances of the row that commit moves into the world
RowMoved ==
    LET p    == Head(work)
        arch == snap.archetypes[p[1]]
        r    == BuildRow(DeferredEntityBuilder_new, arch_info(arch, loadReg),
                         arch, p[2], dst, arch.entities[p[2]])
    IN  IF r.ok THEN Len(r.b.ptrs) ELSE 0

RowConstructed ==
    LET p    == Head(work)
        arch == snap.archetypes[p[1]]
    IN  ctor_calls(arch_info(arch, loadReg), arch, p[2])

\* C25 (as claimed): in every row the defragment loader processes, each
\* instance constructed in the arena is moved into the world by commit or
\* destroyed by its drop function before bump.reset(). The loader and the
\* builder call no drop function, so every constructed instance has to be
\* among the ones commit moves.
C25_ArenaInstancesFinalized ==
    [][RowUnderway => RowConstructed = RowMoved]_vars


(***************************************************************************)
(* Loading a manifest: load_world_manifest_with_loader                     *)
(***************************************************************************)
\* the archetypes a manifest written from a snapshot parses back to: the
\* archetypes with rows, each through its CSV blob, and no entity list
ManifestSnapshots(snapshot) ==
    LET m == WorldWithAurora_from(snapshot)
        parsed(i) == {to_archetype_snapshot(m.embed[i], comps) :
                        comps \in Orders({h.comp : h \in m.embed[i].headers})}
    IN  {[entities |-> <<>>, archetypes |-> f] :
            f \in {g \in [1..Len(m.embed) ->
                            UNION {parsed(i) : i \in 1..Len(m.embed)}] :
                     \A i \in 1..Len(m.embed) : g[i] \in parsed(i)}}

InitLoadManifest ==
    /\ BufferUnused
    /\ srcW \in Worlds
    /\ reg \in [LComp -> Modes \cup {Unregistered}]
    /\ loadReg = reg
    /\ snap \in ManifestSnapshots(save_world_arch_snapshot(srcW, reg))
    /\ dst0 = EmptyWorld
    /\ loader = "manifest"
    /\ lstate = "init"
    /\ work = <<>>
    /\ dst = dst0
    /\ dstArch = archetypes(dst0)
    /\ NoRemap
    /\ NoAux

\* the manifest loader enters one archetype: load_world_arch_snapshot
\* begins with its own reservation, counted from the empty entity list of
\* temp_snap
manifest_archetype ==
    /\ lstate = "loading"
    /\ loader = "manifest"
    /\ work # <<>>
    /\ Head(work)[2] = 0
    /\ dst' = reserve_entities(dst, count_entities(temp_snap(snap, Head(work)[1])))
    /\ work' = Tail(work)
    /\ UNCHANGED <<lstate, dstArch>>
    /\ LoadInputs
    /\ NoBufferUse

NextLoadManifest ==
    \/ load_begin
    \/ manifest_archetype
    \/ arch_cell
    \/ load_return

SpecLoadManifest == InitLoadManifest /\ [][NextLoadManifest]_vars

\* the entity indices the rows of the archetypes declare
RowIndices(s) ==
    UNION {Range(s.archetypes[a].entities) : a \in DOMAIN s.archetypes}

C30_EntityCountIsLargestPlusOne ==
    (loader = "manifest" /\ lstate = "done" /\ dst0 = EmptyWorld
        /\ snap.archetypes # <<>>)
    => Cardinality(DOMAIN dst) = max_entity(snap) + 1

====
